---- MODULE Spec2Model ----
(***************************************************************************)
(* State-machine model of IntegratedNiftyCETrader                          *)
(* (src/integrated_nifty_ce_trader.py): the trade cycle of run, the        *)
(* double-confirmation polling loop, the exit monitor, order execution and *)
(* the position sizer, together with the broker, the wall clock and the    *)
(* user (KeyboardInterrupt, stop()) as the environment.                    *)
(*                                                                         *)
(* Units.  Prices and balances are whole rupees.  risk_factor is kept in   *)
(* percent and trading_capital in hundredths of a rupee, so that           *)
(* balance * risk_factor is exact.  Durations are whole seconds.           *)
(*                                                                         *)
(* Time.  The wall clock is not a variable.  What the code reads from it   *)
(* is modelled by (a) phase, the position of the clock relative to the     *)
(* market hours, which the environment advances, and (b) ages, the seconds *)
(* elapsed since an instant the code remembers, capped at the only         *)
(* threshold they are compared with (primary_check_seconds).  Time passes  *)
(* in the blocking waits (time.sleep), each of which lasts its duration    *)
(* plus a latency of 0..MaxJitter seconds.                                 *)
(***************************************************************************)
EXTENDS Integers, Sequences, FiniteSets, TLC

(* ------------------------------ bounds -------------------------------- *)

\* Trade cycles started by run in one session.
MaxCycles == 2

\* Extra seconds a blocking wait may take beyond its nominal duration.
MaxJitter == 1

\* Trade cycles of a session in which the broker's fills are followed.
FillCycles == 1

\* Window of every rolling or smoothing step when the indicators are run on
\* enumerated candle series (the source's windows are its default arguments).
IndWindow == 2

(* ------------------------ program constants --------------------------- *)

lot_size == 75
stop_new_trades_minutes == 15
primary_check_seconds == 10
confirm_check_seconds == 5
rsi_max == 65
stoch_rsi_threshold == 50
premium_min == 80
premium_max == 120

\* Lengths of the guards of check_buy_conditions and check_exit_conditions.
min_bars_buy == 20
min_bars_exit == 5

\* Windows of rsi and stochastic_rsi as calculate_all_indicators calls them.
rsi_period == 14
stoch_period == 14
smooth_k == 3
\* Period and offset of ema_on_low as calculate_all_indicators calls it.
ema_low_period == 8
ema_low_offset == 9

smooth_d == 3

\* Nominal durations of the blocking waits of run, execute_buy, execute_sell.
sleep_fill == 2
sleep_cycle == 5
sleep_no_option == 30
sleep_retry == 60

(* --------------------------- small helpers ---------------------------- *)

Min(a, b) == IF a <= b THEN a ELSE b

Last(s) == s[Len(s)]

\* A float of the program, kept exact: a rational v/d with d > 0, an
\* infinity (d = 0, v = 1 or -1), or NaN.  Every comparison with NaN is
\* false, as in IEEE 754 / numpy.  Rounding and the sign of zero are not
\* modelled.  Numbers are kept in lowest terms.
Abs(x) == IF x < 0 THEN -x ELSE x

RECURSIVE GCD(_, _)
GCD(a, b) == IF b = 0 THEN a ELSE GCD(b, a % b)

Num(x) == [nan |-> FALSE, v |-> x, d |-> 1]
NaN == [nan |-> TRUE, v |-> 0, d |-> 1]
Inf == [nan |-> FALSE, v |-> 1, d |-> 0]
NegInf == [nan |-> FALSE, v |-> -1, d |-> 0]

\* n/d in lowest terms, d # 0.
Frac(n, d) ==
    LET g == GCD(Abs(n), Abs(d))
        s == IF d < 0 THEN -1 ELSE 1
    IN  [nan |-> FALSE, v |-> (s * n) \div g, d |-> (s * d) \div g]

IsNum(a) == ~a.nan /\ a.d > 0
Sign(a) == IF a.v > 0 THEN 1 ELSE IF a.v < 0 THEN -1 ELSE 0

GT(a, b) ==
    /\ ~a.nan
    /\ ~b.nan
    /\ IF a.d = 0 \/ b.d = 0
       THEN (IF a.d = 0 THEN a.v ELSE 0) > (IF b.d = 0 THEN b.v ELSE 0)
       ELSE LET g == GCD(a.d, b.d)
            IN  a.v * (b.d \div g) > b.v * (a.d \div g)
LT(a, b) == GT(b, a)
EQ(a, b) ==
    /\ ~a.nan
    /\ ~b.nan
    /\ IF a.d = 0 \/ b.d = 0
       THEN a.d = 0 /\ b.d = 0 /\ a.v = b.v
       ELSE a.v = b.v /\ a.d = b.d
GE(a, b) == GT(a, b) \/ EQ(a, b)
LE(a, b) == GT(b, a) \/ EQ(a, b)

\* Float arithmetic: NaN propagates, x/0 is an infinity, 0/0 is NaN, and
\* nothing raises.
Neg(a) == IF a.nan THEN NaN ELSE [nan |-> FALSE, v |-> -a.v, d |-> a.d]
Add(a, b) ==
    IF a.nan \/ b.nan THEN NaN
    ELSE IF a.d = 0 /\ b.d = 0 THEN (IF a.v = b.v THEN a ELSE NaN)
    ELSE IF a.d = 0 THEN a
    ELSE IF b.d = 0 THEN b
    ELSE LET g == GCD(a.d, b.d)
         IN  Frac(a.v * (b.d \div g) + b.v * (a.d \div g), (a.d \div g) * b.d)
Sub(a, b) == Add(a, Neg(b))
Mul(a, b) ==
    IF a.nan \/ b.nan THEN NaN
    ELSE IF a.d = 0 \/ b.d = 0
         THEN (IF Sign(a) * Sign(b) = 0 THEN NaN
               ELSE IF Sign(a) * Sign(b) > 0 THEN Inf ELSE NegInf)
    ELSE LET g == GCD(Abs(a.v), b.d)
             h == GCD(Abs(b.v), a.d)
         IN  Frac((a.v \div g) * (b.v \div h), (a.d \div h) * (b.d \div g))
Div(a, b) ==
    IF a.nan \/ b.nan THEN NaN
    ELSE IF b.d = 0 THEN (IF a.d = 0 THEN NaN ELSE Num(0))
    ELSE IF b.v = 0
         THEN (IF a.v = 0 THEN NaN ELSE IF a.v > 0 THEN Inf ELSE NegInf)
    ELSE IF a.d = 0 THEN (IF Sign(a) * Sign(b) > 0 THEN Inf ELSE NegInf)
    ELSE LET g == GCD(Abs(a.v), Abs(b.v))
             h == GCD(a.d, b.d)
         IN  Frac((a.v \div g) * (b.d \div h), (a.d \div h) * (b.v \div g))

(* ------------------------- signal evaluation -------------------------- *)
(* A candle history after calculate_all_indicators, as the evaluators read *)
(* it: its length and its last three rows (df.iloc[-1], [-2], [-3]).       *)

Row(close, st, dir, emaLow, ema8, ema9, stoch, rsi, hist) ==
    [close |-> close, supertrend |-> st, supertrend_direction |-> dir,
     ema_low_8 |-> emaLow, ema_8 |-> ema8, ema_9 |-> ema9,
     stoch_rsi_k |-> stoch, rsi_14 |-> rsi, macd_hist |-> hist]

Frame(n, cur, prv, prv2) == [len |-> n, current |-> cur, prev |-> prv, prev2 |-> prv2]

\* First history length at which the last row's stoch_rsi_k can be a number:
\* rsi is a number from row rsi_period (diff leaves row 1 at 0 for gain and
\* loss), its rolling min/max from stoch_period - 1 rows later, and the
\* smoothed %K from smooth_k - 1 rows after that.
StochKFirstLen == rsi_period + (stoch_period - 1) + (smooth_k - 1)

\* The seven named booleans of check_buy_conditions.
BuyConditions(df) ==
    LET current == df.current
        prev == df.prev
        stoch_rising == GT(current.stoch_rsi_k, prev.stoch_rsi_k)
        rsi_rising == GT(current.rsi_14, prev.rsi_14)
        macd_improving == GT(current.macd_hist, prev.macd_hist)
    IN  [supertrend_bullish |-> EQ(current.supertrend_direction, Num(1)),
         close_above_st |-> GT(current.close, current.supertrend),
         close_above_ema_low |-> GT(current.close, current.ema_low_8),
         ema_bullish |-> GT(current.ema_8, current.ema_9),
         stoch_ok |-> LT(current.stoch_rsi_k, Num(stoch_rsi_threshold)) \/ stoch_rising,
         rsi_ok |-> LT(current.rsi_14, Num(rsi_max)) /\ rsi_rising,
         macd_ok |-> GT(current.macd_hist, Num(0)) \/ macd_improving]

\* A plausible slip: the RSI condition is computed but left out of the AND.
AllConditionsMet_NoRsi(c) ==
    /\ c.supertrend_bullish
    /\ c.close_above_st
    /\ c.close_above_ema_low
    /\ c.ema_bullish
    /\ c.stoch_ok
    /\ c.macd_ok

\* all(conditions.values())
AllConditionsMet(c) ==
    /\ c.supertrend_bullish
    /\ c.close_above_st
    /\ c.close_above_ema_low
    /\ c.ema_bullish
    /\ c.stoch_ok
    /\ c.rsi_ok
    /\ c.macd_ok

\* check_buy_conditions: (signal_active, details); on a short history the
\* details are {"error": "Insufficient data"}.
check_buy_conditions(df) ==
    IF df.len < min_bars_buy
    THEN [signal |-> FALSE, error |-> TRUE]
    ELSE [signal |-> AllConditionsMet(BuyConditions(df)), error |-> FALSE]

\* A plausible slip: one decline of ema_low_8 is taken for a falling one.
check_exit_conditions_SingleDecline(df_2min) ==
    IF df_2min.len < min_bars_exit
    THEN [should_exit |-> FALSE, exit_reason |-> "None"]
    ELSE LET current == df_2min.current
             prev == df_2min.prev
             exit_trigger_1 == /\ LT(current.ema_low_8, prev.ema_low_8)
                               /\ LT(current.close, current.ema_low_8)
             exit_trigger_2 == /\ EQ(current.supertrend_direction, Num(-1))
                               /\ LT(current.ema_8, current.ema_9)
                               /\ LT(current.close, current.ema_low_8)
         IN  IF exit_trigger_1
             THEN [should_exit |-> TRUE, exit_reason |-> "ema_low_falling"]
             ELSE IF exit_trigger_2
                  THEN [should_exit |-> TRUE, exit_reason |-> "strong_bearish"]
                  ELSE [should_exit |-> FALSE, exit_reason |-> "None"]

\* A plausible slip: the history is evaluated however short it is.
check_exit_conditions_NoGuard(df_2min) ==
    LET current == df_2min.current
        prev == df_2min.prev
        prev2 == df_2min.prev2
        exit_trigger_1 == /\ LT(current.ema_low_8, prev.ema_low_8)
                          /\ LT(prev.ema_low_8, prev2.ema_low_8)
                          /\ LT(current.close, current.ema_low_8)
        exit_trigger_2 == /\ EQ(current.supertrend_direction, Num(-1))
                          /\ LT(current.ema_8, current.ema_9)
                          /\ LT(current.close, current.ema_low_8)
    IN  IF exit_trigger_1
        THEN [should_exit |-> TRUE, exit_reason |-> "ema_low_falling"]
        ELSE IF exit_trigger_2
             THEN [should_exit |-> TRUE, exit_reason |-> "strong_bearish"]
             ELSE [should_exit |-> FALSE, exit_reason |-> "None"]

\* check_exit_conditions: (should_exit, exit_reason).
check_exit_conditions(df_2min) ==
    IF df_2min.len < min_bars_exit
    THEN [should_exit |-> FALSE, exit_reason |-> "None"]
    ELSE LET current == df_2min.current
             prev == df_2min.prev
             prev2 == df_2min.prev2
             ema_low_falling == /\ LT(current.ema_low_8, prev.ema_low_8)
                                /\ LT(prev.ema_low_8, prev2.ema_low_8)
             price_below_ema == LT(current.close, current.ema_low_8)
             exit_trigger_1 == ema_low_falling /\ price_below_ema
             exit_trigger_2 == /\ EQ(current.supertrend_direction, Num(-1))
                               /\ LT(current.ema_8, current.ema_9)
                               /\ LT(current.close, current.ema_low_8)
         IN  IF exit_trigger_1
             THEN [should_exit |-> TRUE, exit_reason |-> "ema_low_falling"]
             ELSE IF exit_trigger_2
                  THEN [should_exit |-> TRUE, exit_reason |-> "strong_bearish"]
                  ELSE [should_exit |-> FALSE, exit_reason |-> "None"]

(* ----------------------------- indicators ----------------------------- *)
(* src/indicators.py.  A series is a sequence of floats; index 1 here is   *)
(* index 0 of the pandas Series.                                           *)

\* A series given by its values, built element by element (an ndarray, not
\* a rule to be re-evaluated on every access).
RECURSIVE SeriesRange(_, _, _)
SeriesRange(f, lo, hi) ==
    IF lo > hi THEN <<>>
    ELSE IF lo = hi THEN <<f[lo]>>
    ELSE LET mid == (lo + hi) \div 2
         IN  SeriesRange(f, lo, mid) \o SeriesRange(f, mid + 1, hi)

Series(f, n) == SeriesRange(f, 1, n)

\* Series.rolling(window=w).mean(): NaN until w values are in the window
\* and whenever one of them is NaN.
sma(data, w) ==
    LET RECURSIVE SumTo(_, _)
        SumTo(i, k) == IF k = 0 THEN Num(0) ELSE Add(data[i], SumTo(i - 1, k - 1))
    IN  Series([i \in 1..Len(data) |-> IF i < w THEN NaN ELSE Div(SumTo(i, w), Num(w))], Len(data))

\* A plausible slip: the extremes are taken over the w bars before the
\* current one.
RollingExtreme_Lagged(data, w, pickMax) ==
    LET Window(i) == (i - w)..(i - 1)
        Best(i) == CHOOSE k \in Window(i) :
                       \A j \in Window(i) :
                           IF pickMax THEN GE(data[k], data[j]) ELSE LE(data[k], data[j])
    IN  Series([i \in 1..Len(data) |->
            IF i <= w \/ \E j \in Window(i) : data[j].nan THEN NaN ELSE data[Best(i)]],
            Len(data))

\* Series.rolling(window=w).min() / .max(), NaN under the same conditions.
RollingExtreme(data, w, pickMax) ==
    LET Window(i) == (i - w + 1)..i
        Best(i) == CHOOSE k \in Window(i) :
                       \A j \in Window(i) :
                           IF pickMax THEN GE(data[k], data[j]) ELSE LE(data[k], data[j])
    IN  Series([i \in 1..Len(data) |->
            IF i < w \/ \E j \in Window(i) : data[j].nan THEN NaN ELSE data[Best(i)]], Len(data))

\* A plausible slip: Wilder's smoothing factor 1/period.
ema_Wilder(data, period) ==
    LET alpha == Frac(1, period)
        RECURSIVE E(_)
        E(i) == IF i = 1 THEN data[1]
                ELSE Add(Mul(data[i], alpha), Mul(E(i - 1), Sub(Num(1), alpha)))
    IN  Series([i \in 1..Len(data) |-> E(i)], Len(data))

\* ema: Series.ewm(span=period, adjust=False).mean().
ema(data, period) ==
    LET alpha == Frac(2, period + 1)
        RECURSIVE E(_)
        E(i) == IF i = 1 THEN data[1]
                ELSE Add(Mul(data[i], alpha), Mul(E(i - 1), Sub(Num(1), alpha)))
    IN  Series([i \in 1..Len(data) |-> E(i)], Len(data))

\* A plausible slip: the shifted series is returned in the first place.
ema_on_low_ShiftedFirst(low_prices, period, offset) ==
    LET ema_values == ema(low_prices, period)
        n == Len(low_prices)
    IN  [ema_values |-> Series([i \in 1..n |->
                            IF i <= offset THEN NaN ELSE ema_values[i - offset]], n),
         ema_offset |-> ema_values]

\* ema_on_low: (ema_values, ema_values.shift(offset)); the shift leaves NaN
\* on the first offset rows.
ema_on_low(low_prices, period, offset) ==
    LET ema_values == ema(low_prices, period)
        n == Len(low_prices)
    IN  [ema_values |-> ema_values,
         ema_offset |-> Series([i \in 1..n |->
                            IF i <= offset THEN NaN ELSE ema_values[i - offset]], n)]

\* atr: the true range skips the NaN of close.shift(1) on the first row.
atr(high, low, close, period) ==
    LET Max2(a, b) == IF GT(b, a) THEN b ELSE a
        AbsF(a) == IF LT(a, Num(0)) THEN Neg(a) ELSE a
        true_range == Series([i \in 1..Len(close) |->
            IF i = 1 THEN Sub(high[i], low[i])
            ELSE Max2(Sub(high[i], low[i]),
                      Max2(AbsF(Sub(high[i], close[i - 1])),
                           AbsF(Sub(low[i], close[i - 1]))))], Len(close))
    IN  ema(true_range, period)

\* A plausible slip: the band is released on the current close.
FinalUpper_CurrentClose(basic, prev_final, prev_close, cur_close) ==
    IF LT(basic, prev_final) \/ GT(cur_close, prev_final) THEN basic ELSE prev_final

\* Lines 97-100 and 103-106: one step of the final bands.
FinalUpper(basic, prev_final, prev_close, cur_close) ==
    IF LT(basic, prev_final) \/ GT(prev_close, prev_final) THEN basic ELSE prev_final

FinalLower(basic, prev_final, prev_close) ==
    IF GT(basic, prev_final) \/ LT(prev_close, prev_final) THEN basic ELSE prev_final

\* supertrend: (supertrend_values, trend_direction); the bands are kept in
\* the result for inspection.  Row 0 of both outputs is never assigned.
supertrend(high, low, close, period, multiplier) ==
    LET n == Len(close)
        atr_values == atr(high, low, close, period)
        hl2(i) == Div(Add(high[i], low[i]), Num(2))
        basic_upper == Series([i \in 1..n |-> Add(hl2(i), Mul(Num(multiplier), atr_values[i]))], n)
        basic_lower == Series([i \in 1..n |-> Sub(hl2(i), Mul(Num(multiplier), atr_values[i]))], n)
        RECURSIVE FU(_)
        FU(i) == IF i = 1 THEN basic_upper[1]
                 ELSE FinalUpper(basic_upper[i], FU(i - 1), close[i - 1], close[i])
        RECURSIVE FL(_)
        FL(i) == IF i = 1 THEN basic_lower[1]
                 ELSE FinalLower(basic_lower[i], FL(i - 1), close[i - 1])
        final_upper == Series([i \in 1..n |-> FU(i)], n)
        final_lower == Series([i \in 1..n |-> FL(i)], n)
        RECURSIVE T(_)
        T(i) == IF i = 1 THEN NaN
                ELSE IF i = 2
                     THEN (IF GT(close[i], final_upper[i]) THEN Num(1) ELSE Num(-1))
                     ELSE LET prev == T(i - 1)
                          IN  IF EQ(prev, Num(-1)) /\ GT(close[i], final_upper[i])
                              THEN Num(1)
                              ELSE IF EQ(prev, Num(1)) /\ LT(close[i], final_lower[i])
                                   THEN Num(-1)
                                   ELSE prev
        trend == Series([i \in 1..n |-> T(i)], n)
    IN  [supertrend |-> Series([i \in 1..n |->
                            IF i = 1 THEN NaN
                            ELSE IF EQ(trend[i], Num(1)) THEN final_lower[i]
                                 ELSE final_upper[i]], n),
         direction |-> trend,
         basic_upper |-> basic_upper, basic_lower |-> basic_lower,
         final_upper |-> final_upper, final_lower |-> final_lower]

\* A plausible slip: a window without losses is left undefined.
rsi_NoClamp(data, period) ==
    LET delta(i) == Sub(data[i], data[i - 1])
        gains == Series([i \in 1..Len(data) |->
                    IF i > 1 /\ GT(delta(i), Num(0)) THEN delta(i) ELSE Num(0)], Len(data))
        losses == Series([i \in 1..Len(data) |->
                    IF i > 1 /\ LT(delta(i), Num(0)) THEN Neg(delta(i)) ELSE Num(0)], Len(data))
        gain == sma(gains, period)
        loss == sma(losses, period)
    IN  Series([i \in 1..Len(data) |->
            IF EQ(loss[i], Num(0)) THEN NaN
            ELSE Sub(Num(100), Div(Num(100), Add(Num(1), Div(gain[i], loss[i]))))], Len(data))

\* rsi: delta.where(...) puts 0 where the comparison fails, the NaN of the
\* first row included; gain / loss is a float division.
rsi(data, period) ==
    LET delta(i) == Sub(data[i], data[i - 1])
        gains == Series([i \in 1..Len(data) |->
                    IF i > 1 /\ GT(delta(i), Num(0)) THEN delta(i) ELSE Num(0)], Len(data))
        losses == Series([i \in 1..Len(data) |->
                    IF i > 1 /\ LT(delta(i), Num(0)) THEN Neg(delta(i)) ELSE Num(0)], Len(data))
        gain == sma(gains, period)
        loss == sma(losses, period)
    IN  Series([i \in 1..Len(data) |->
            LET rs == Div(gain[i], loss[i])
            IN  Sub(Num(100), Div(Num(100), Add(Num(1), rs)))], Len(data))

\* A plausible slip: a zero range is replaced by 1 to avoid the division.
StochOf_ZeroRangeAsOne(r, lo, hi) ==
    IF EQ(hi, lo) THEN Num(0) ELSE Mul(Div(Sub(r, lo), Sub(hi, lo)), Num(100))

\* Line 186: ((rsi - lowest) / (highest - lowest)) * 100.
StochOf(r, lo, hi) == Mul(Div(Sub(r, lo), Sub(hi, lo)), Num(100))

\* stochastic_rsi: (k, d).
stochastic_rsi(data, rsi_p, stoch_p, k_p, d_p) ==
    LET rsi_values == rsi(data, rsi_p)
        lowest_rsi == RollingExtreme(rsi_values, stoch_p, FALSE)
        highest_rsi == RollingExtreme(rsi_values, stoch_p, TRUE)
        stoch_rsi == Series([i \in 1..Len(data) |->
                        StochOf(rsi_values[i], lowest_rsi[i], highest_rsi[i])], Len(data))
        k == sma(stoch_rsi, k_p)
    IN  [k |-> k, d |-> sma(k, d_p), raw |-> stoch_rsi,
         lowest |-> lowest_rsi, highest |-> highest_rsi]

(* --------------------------- position sizing -------------------------- *)

\* get_account_balance: trading_capital = available_balance * risk_factor,
\* here in hundredths of a rupee (risk_factor in percent).
TradingCapital(balance, risk_pct) == balance * risk_pct

\* calculate_quantity: capital in hundredths of a rupee, premium in rupees.
\* A plausible slip: rounding the lot count up instead of down.
calculate_quantity_ceil(capital, option_premium, lot) ==
    LET cost_per_lot == option_premium * lot
    IN  IF cost_per_lot <= 0 THEN 0
        ELSE ((capital + 100 * cost_per_lot - 1) \div (100 * cost_per_lot)) * lot

calculate_quantity(capital, option_premium, lot) ==
    LET cost_per_lot == option_premium * lot
    IN  IF cost_per_lot <= 0 THEN 0
        ELSE LET max_lots == capital \div (100 * cost_per_lot)
             IN  max_lots * lot

(* ---------------------- inputs of the environment --------------------- *)

\* Candle histories kite.historical_data may yield, after indicators.
NaNRow == Row(NaN, NaN, NaN, NaN, NaN, NaN, NaN, NaN, NaN)
BullRow == Row(Num(100), Num(95), Num(1), Num(97), Num(99), Num(98), Num(40), Num(60), Num(1))
BullPrev == Row(Num(99), Num(95), Num(1), Num(96), Num(98), Num(98), Num(30), Num(55), Num(0))
FlatRsiRow == Row(Num(100), Num(95), Num(1), Num(97), Num(99), Num(98), Num(40), Num(55), Num(1))
ColdRow == Row(Num(100), Num(95), Num(1), Num(97), Num(99), Num(98), NaN, Num(60), Num(1))
FallRow == Row(Num(94), Num(95), Num(1), Num(96), Num(99), Num(98), Num(40), Num(50), Num(1))
FallPrev == Row(Num(96), Num(95), Num(1), Num(97), Num(99), Num(98), Num(45), Num(52), Num(1))
FallPrev2 == Row(Num(98), Num(95), Num(1), Num(98), Num(99), Num(98), Num(50), Num(55), Num(1))
BearRow == Row(Num(94), Num(99), Num(-1), Num(96), Num(95), Num(96), Num(40), Num(40), Num(-1))
BearPrev == Row(Num(95), Num(99), Num(-1), Num(95), Num(96), Num(96), Num(45), Num(45), Num(-1))
TinyRow == Row(Num(94), Num(99), Num(-1), Num(96), Num(95), Num(96), NaN, NaN, Num(-1))
TinyPrev == Row(Num(96), Num(99), Num(-1), Num(97), Num(96), Num(96), NaN, NaN, Num(-1))
TinyPrev2 == Row(Num(98), Num(99), Num(-1), Num(98), Num(97), Num(96), NaN, NaN, Num(0))

EmptyFrame == Frame(0, NaNRow, NaNRow, NaNRow)
ShortFrame == Frame(min_bars_buy - 1, ColdRow, ColdRow, ColdRow)
BullFrame == Frame(2 * min_bars_buy, BullRow, BullPrev, BullPrev)
FlatRsiFrame == Frame(2 * min_bars_buy, FlatRsiRow, BullPrev, BullPrev)
FallingFrame == Frame(2 * min_bars_buy, FallRow, FallPrev, FallPrev2)
BearFrame == Frame(2 * min_bars_buy, BearRow, BearPrev, BearPrev)
\* Fewer bars than check_exit_conditions asks for, on a falling market.
TinyFrame == Frame(min_bars_exit - 1, TinyRow, TinyPrev, TinyPrev2)

MarketData ==
    {EmptyFrame, TinyFrame, ShortFrame, BullFrame, FlatRsiFrame, FallingFrame, BearFrame}

ExitReasons == {"ema_low_falling", "strong_bearish", "market_close", "user_stop"}

(* ------------------------------- state -------------------------------- *)

VARIABLES
    \* what the broker and the config may supply in this session (fixed by
    \* Init): balances, premiums, fills, symbols, risk_factors
    env,
    \* fields of IntegratedNiftyCETrader
    risk_factor, available_balance, trading_capital, selected_option,
    calculated_quantity, position_open, entry_price, entry_time,
    position_quantity, position_symbol, trade_cycle, daily_trades, total_pnl,
    primary_signal, confirm_signal, is_running,
    \* control: where run is, and the locals that live across steps
    pc, in_handler, outcome, sell_reason, sell_ret, quantity, current_price,
    since5,
    \* environment: the wall clock relative to the market hours
    phase,
    \* history (read by properties only)
    since_eval, ever_eval, first_iter, primary_fresh, iter_log,
    buys_accepted, sells_accepted, positions_opened, stop_with_open,
    last_sell,
    \* history: the latest order status get_filled_price was given, and what
    \* the data fetches of the polling iteration under way have yielded
    last_fill, iter_in,
    \* argument and result of a pure function under test
    fn_args, fn_ret

traderVars == <<risk_factor, available_balance, trading_capital, selected_option,
                calculated_quantity, position_open, entry_price, entry_time,
                position_quantity, position_symbol, trade_cycle, daily_trades,
                total_pnl, primary_signal, confirm_signal, is_running>>
controlVars == <<pc, in_handler, outcome, sell_reason, sell_ret, quantity,
                 current_price, since5>>
historyVars == <<since_eval, ever_eval, first_iter, primary_fresh, iter_log,
                 buys_accepted, sells_accepted, positions_opened, stop_with_open,
                 last_sell, last_fill, iter_in>>
fnVars == <<fn_args, fn_ret, env>>
vars == <<traderVars, controlVars, phase, historyVars, fnVars>>

\* live_balance values kite.margins may report.
Balances == env.balances

\* last_price values kite.quote may report for an option.
Premiums == env.premiums

\* Premiums the scanner lets through (filter_by_premium_range).
ScannerPremiums == {p \in Premiums : premium_min < p /\ p < premium_max}

\* Trading symbols the scanner may select.
Symbols == env.symbols

\* What get_filled_price may yield: 0 (status not COMPLETE, or the status
\* fetch failed) or the average price of a COMPLETE order.
FilledPrices == {0} \cup env.fills

NoOption == [tradingsymbol |-> "None", ltp |-> 0]
NoSell == [reason |-> "None", accepted |-> FALSE]

\* The status of the latest entry of kite.order_history, or "unavailable"
\* when get_order_status yields None (no entry, or the call failed).
OrderStatuses == {"COMPLETE", "REJECTED", "OPEN", "unavailable"}

\* What get_order_status may yield for an order: its status and, for a
\* COMPLETE order, its average price.
OrderFills(side) ==
    {[side |-> side, status |-> st,
      average_price |-> IF st = "COMPLETE" THEN avg ELSE 0] :
        st \in env.statuses, avg \in env.fills}

NoFill == [side |-> "None", status |-> "None", average_price |-> 0]

\* get_filled_price: the average price of a COMPLETE order, else 0.
get_filled_price(status) ==
    IF status.status = "COMPLETE" THEN status.average_price ELSE 0

\* A plausible slip: an unavailable fill price is taken as it is.
FillOrFallback_NoFallback(filled_price, fallback) == filled_price

\* Lines 862-874 and 908: the filled price, or the fallback when it is 0.
FillOrFallback(filled_price, fallback) ==
    IF filled_price > 0 THEN filled_price ELSE fallback

\* What a data fetch of a polling iteration has yielded.
NoInputs == [quote |-> "none", confirm |-> "none", primary |-> "none"]

QuoteKind(p) == IF p = 0 THEN "failed" ELSE "ok"

FrameKind(df, min_bars) ==
    IF df.len = 0 THEN "empty" ELSE IF df.len < min_bars THEN "short" ELSE "full"

Phases == {"preopen", "open", "cutoff", "closing", "closed"}

\* is_market_open: market_open <= now <= market_close.
is_market_open == phase \in {"open", "cutoff", "closing"}

\* get_time_to_market_close() <= 0: past the close, or in its last minute
\* (the minutes are truncated).
no_minutes_to_close == phase \in {"closing", "closed"}

\* A plausible slip: the cutoff is taken for the close itself.
should_stop_new_trades_Late == phase \in {"closing", "closed"}

\* should_stop_new_trades: fewer than stop_new_trades_minutes to the close.
should_stop_new_trades == phase \in {"cutoff", "closing", "closed"}

\* __init__, for a config with risk factor rf, constructed at clock phase ph.
TraderInit(rf, ph) ==
    /\ risk_factor = rf
    /\ available_balance = 0
    /\ trading_capital = 0
    /\ selected_option = NoOption
    /\ calculated_quantity = 0
    /\ position_open = FALSE
    /\ entry_price = 0
    /\ entry_time = "None"
    /\ position_quantity = 0
    /\ position_symbol = "None"
    /\ trade_cycle = 0
    /\ daily_trades = <<>>
    /\ total_pnl = 0
    /\ primary_signal = FALSE
    /\ confirm_signal = FALSE
    /\ is_running = FALSE
    /\ pc = "start"
    /\ in_handler = FALSE
    /\ outcome = "running"
    /\ sell_reason = "None"
    /\ sell_ret = "None"
    /\ quantity = 0
    /\ current_price = 0
    /\ since5 = primary_check_seconds
    /\ phase = ph
    /\ since_eval = primary_check_seconds
    /\ ever_eval = FALSE
    /\ first_iter = FALSE
    /\ primary_fresh = FALSE
    /\ iter_log = <<>>
    /\ buys_accepted = 0
    /\ sells_accepted = 0
    /\ positions_opened = 0
    /\ stop_with_open = FALSE
    /\ last_sell = NoSell
    /\ last_fill = NoFill
    /\ iter_in = NoInputs

\* The environment of a trading session: the risk factors (percent) a
\* config may carry, and what the broker may answer.
SessionEnv ==
    [risk_factors |-> {40, 90}, balances |-> {10000, 100000}, premiums |-> {90},
     fills |-> {90}, statuses |-> {"COMPLETE", "REJECTED"},
     symbols |-> {"NIFTY25000CE"}, cycles |-> MaxCycles]

Init ==
    /\ env = SessionEnv
    /\ \E rf \in env.risk_factors, ph \in Phases : TraderInit(rf, ph)
    /\ fn_args = <<>>
    /\ fn_ret = <<>>

(* -------------------------------- time -------------------------------- *)

\* An age after a blocking wait of n seconds that took d seconds more.
Elapse(age, n, d) == Min(age + n + d, primary_check_seconds)

\* time.sleep(n) outside wait_for_buy_signal.
Sleep(n) ==
    /\ \E d \in 0..MaxJitter : since_eval' = Elapse(since_eval, n, d)
    /\ UNCHANGED since5

\* time.sleep(n) inside wait_for_buy_signal, whose local last_5min_check ages.
SleepInWait(n) ==
    \E d \in 0..MaxJitter :
        /\ since_eval' = Elapse(since_eval, n, d)
        /\ since5' = Elapse(since5, n, d)

NoSleep == UNCHANGED <<since_eval, since5>>

\* The wall clock passes an edge of the market hours.
MarketClock ==
    /\ pc # "done"
    /\ phase # "closed"
    /\ phase' = CASE phase = "preopen" -> "open"
                  [] phase = "open" -> "cutoff"
                  [] phase = "cutoff" -> "closing"
                  [] OTHER -> "closed"
    /\ UNCHANGED <<traderVars, controlVars, historyVars, fnVars>>

(* ------------------------- broker-facing helpers ---------------------- *)

\* get_account_balance, on success, with live_balance b.
BalanceFetched(b) ==
    /\ available_balance' = b
    /\ trading_capital' = TradingCapital(b, risk_factor)

\* refresh_option_premium: the quote p is stored, or (p = 0: no selected
\* option, symbol missing from the quote, or the call failed) nothing is.
Refreshed(p) ==
    IF p = 0 \/ selected_option = NoOption
    THEN selected_option
    ELSE [selected_option EXCEPT !.ltp = p]

QuoteResults == {0} \cup Premiums

(* --------------------------- run: the cycle --------------------------- *)

\* run, line 1031: is_running = True, before the try block.
RunStart ==
    /\ pc = "start"
    /\ is_running' = TRUE
    /\ pc' = "run_init"
    /\ UNCHANGED <<risk_factor, available_balance, trading_capital, selected_option,
                   calculated_quantity, position_open, entry_price, entry_time,
                   position_quantity, position_symbol, trade_cycle, daily_trades,
                   total_pnl, primary_signal, confirm_signal>>
    /\ UNCHANGED <<in_handler, outcome, sell_reason, sell_ret, quantity,
                   current_price, since5, phase, historyVars, fnVars>>

\* Phase 1: parse the expiry and fetch the balance; either may raise.
RunInit ==
    /\ pc = "run_init"
    /\ \/ /\ pc' = "fatal"
          /\ UNCHANGED <<available_balance, trading_capital>>
       \/ /\ \E b \in Balances : BalanceFetched(b)
          /\ pc' = "run_wait_open"
    /\ UNCHANGED <<risk_factor, selected_option, calculated_quantity, position_open,
                   entry_price, entry_time, position_quantity, position_symbol,
                   trade_cycle, daily_trades, total_pnl, primary_signal,
                   confirm_signal, is_running>>
    /\ UNCHANGED <<in_handler, outcome, sell_reason, sell_ret, quantity,
                   current_price, since5, phase, historyVars, fnVars>>

\* while not is_market_open() and is_running: sleep(60)
RunWaitOpen ==
    /\ pc = "run_wait_open"
    /\ IF ~is_market_open /\ is_running
       THEN /\ Sleep(sleep_retry)
            /\ pc' = pc
       ELSE /\ NoSleep
            /\ pc' = "run_loop"
    /\ UNCHANGED <<traderVars, in_handler, outcome, sell_reason, sell_ret, quantity,
                   current_price, phase, ever_eval, first_iter, primary_fresh,
                   iter_log, buys_accepted, sells_accepted, positions_opened,
                   stop_with_open, last_sell, fnVars>>
    /\ UNCHANGED <<last_fill, iter_in>>

\* while is_running and is_market_open(): trade_cycle += 1; cutoff check.
RunLoop ==
    /\ pc = "run_loop"
    /\ IF is_running /\ is_market_open
       THEN /\ should_stop_new_trades \/ trade_cycle < env.cycles
            /\ trade_cycle' = trade_cycle + 1
            /\ pc' = IF should_stop_new_trades THEN "eod" ELSE "run_scan"
       ELSE /\ trade_cycle' = trade_cycle
            /\ pc' = "eod"
    /\ UNCHANGED <<risk_factor, available_balance, trading_capital, selected_option,
                   calculated_quantity, position_open, entry_price, entry_time,
                   position_quantity, position_symbol, daily_trades, total_pnl,
                   primary_signal, confirm_signal, is_running>>
    /\ UNCHANGED <<in_handler, outcome, sell_reason, sell_ret, quantity,
                   current_price, since5, phase, historyVars, fnVars>>

\* Phase 2: initialize_scanner (may raise) and select_best_ce_option.
RunScan ==
    /\ pc = "run_scan"
    /\ \/ /\ pc' = "fatal"
          /\ NoSleep
          /\ UNCHANGED selected_option
       \/ /\ pc' = "run_loop"
          /\ Sleep(sleep_no_option)
          /\ UNCHANGED selected_option
       \/ /\ \E s \in Symbols, p \in ScannerPremiums :
                selected_option' = [tradingsymbol |-> s, ltp |-> p]
          /\ NoSleep
          /\ pc' = "run_size"
    /\ UNCHANGED <<risk_factor, available_balance, trading_capital,
                   calculated_quantity, position_open, entry_price, entry_time,
                   position_quantity, position_symbol, trade_cycle, daily_trades,
                   total_pnl, primary_signal, confirm_signal, is_running>>
    /\ UNCHANGED <<in_handler, outcome, sell_reason, sell_ret, quantity,
                   current_price, phase, ever_eval, first_iter, primary_fresh,
                   iter_log, buys_accepted, sells_accepted, positions_opened,
                   stop_with_open, last_sell, fnVars>>
    /\ UNCHANGED <<last_fill, iter_in>>

\* Phase 3: get_account_balance (may raise) and calculate_quantity.
RunSize ==
    /\ pc = "run_size"
    /\ \/ /\ pc' = "fatal"
          /\ NoSleep
          /\ UNCHANGED <<available_balance, trading_capital, calculated_quantity>>
       \/ \E b \in Balances :
            LET q == calculate_quantity(TradingCapital(b, risk_factor),
                                        selected_option.ltp, lot_size)
            IN  /\ BalanceFetched(b)
                /\ calculated_quantity' =
                       IF selected_option.ltp * lot_size <= 0
                       THEN calculated_quantity ELSE q
                /\ IF q <= 0
                   THEN /\ Sleep(sleep_retry)
                        /\ pc' = "run_loop"
                   ELSE /\ NoSleep
                        /\ pc' = "wbs_enter"
    /\ UNCHANGED <<risk_factor, selected_option, position_open, entry_price,
                   entry_time, position_quantity, position_symbol, trade_cycle,
                   daily_trades, total_pnl, primary_signal, confirm_signal,
                   is_running>>
    /\ UNCHANGED <<in_handler, outcome, sell_reason, sell_ret, quantity,
                   current_price, phase, ever_eval, first_iter, primary_fresh,
                   iter_log, buys_accepted, sells_accepted, positions_opened,
                   stop_with_open, last_sell, fnVars>>
    /\ UNCHANGED <<last_fill, iter_in>>

\* Phase 7: a brief pause before the next cycle while trading may go on.
RunPhase7 ==
    /\ pc = "run_phase7"
    /\ IF is_market_open /\ ~should_stop_new_trades
       THEN Sleep(sleep_cycle)
       ELSE NoSleep
    /\ pc' = "run_loop"
    /\ UNCHANGED <<traderVars, in_handler, outcome, sell_reason, sell_ret, quantity,
                   current_price, phase, ever_eval, first_iter, primary_fresh,
                   iter_log, buys_accepted, sells_accepted, positions_opened,
                   stop_with_open, last_sell, fnVars>>
    /\ UNCHANGED <<last_fill, iter_in>>

(* ------------------------ wait_for_buy_signal ------------------------- *)

posVars == <<position_open, entry_price, entry_time, position_quantity, position_symbol>>
ledgerVars == <<daily_trades, total_pnl>>
balanceVars == <<available_balance, trading_capital>>
sellLocals == <<sell_reason, sell_ret, current_price>>
orderHist == <<buys_accepted, sells_accepted, positions_opened, last_sell>>

\* A plausible slip: the loop does not look at position_open.
WaitLoopCondition_NoPositionCheck == is_running

\* The loop condition of wait_for_buy_signal (line 936).
WaitLoopCondition == is_running /\ ~position_open

\* A plausible slip: a strict comparison.
PrimaryRefreshDue_Strict(since) == since > primary_check_seconds

\* The refresh decision for the primary timeframe (line 961), on the
\* seconds since last_5min_check.
PrimaryRefreshDue(since) == since >= primary_check_seconds

\* A plausible slip: either timeframe is enough.
DoubleConfirmation_Either(primary, confirm) == primary \/ confirm

\* The check for double confirmation (line 976).
DoubleConfirmation(primary, confirm) == primary /\ confirm

\* The statements of one polling iteration (lines 949-980), in program
\* order: the premium refresh, the 2-minute check, the 5-minute check, the
\* check for double confirmation.
\* A plausible slip: the primary timeframe is handled before the confirmation.
IterationOrder_PrimaryFirst == <<"wbs_premium", "wbs_primary", "wbs_confirm", "wbs_decide">>

IterationOrder == <<"wbs_premium", "wbs_confirm", "wbs_primary", "wbs_decide">>

\* The statement that follows statement step in the iteration.
After(step) ==
    LET i == CHOOSE k \in 1..Len(IterationOrder) : IterationOrder[k] = step
    IN  IterationOrder[i + 1]

\* The signal a fetched history yields: False for an empty one.
SignalOf(df) == IF df.len = 0 THEN FALSE ELSE check_buy_conditions(df).signal

\* A plausible slip: last_5min_check is kept between the calls, so that the
\* timer of a new call starts at the age of the last evaluation.
TimerAtEntry_Carried(age) == age

\* Line 934: last_5min_check = 0, so that now - last_5min_check exceeds
\* every threshold until the first refresh, whatever the age of the last
\* evaluation.
TimerAtEntry(age) == primary_check_seconds

WbsEnter ==
    /\ pc = "wbs_enter"
    /\ since5' = TimerAtEntry(since_eval)
    /\ first_iter' = TRUE
    /\ pc' = "wbs_top"
    /\ UNCHANGED <<traderVars, in_handler, outcome, sellLocals, quantity, phase,
                   since_eval, ever_eval, primary_fresh, iter_log, orderHist,
                   stop_with_open, fnVars>>
    /\ UNCHANGED <<last_fill, iter_in>>

\* Lines 936-947: the loop condition, the market hours, the cutoff.  Every
\* way out of the loop here returns False to run, which goes to Phase 7.
WbsTop ==
    /\ pc = "wbs_top"
    /\ IF WaitLoopCondition /\ is_market_open /\ ~should_stop_new_trades
       THEN /\ pc' = IterationOrder[1]
            /\ UNCHANGED <<since5, first_iter>>
       ELSE /\ pc' = "run_phase7"
            /\ since5' = primary_check_seconds
            /\ first_iter' = FALSE
    /\ iter_log' = <<>>
    /\ iter_in' = NoInputs
    /\ primary_fresh' = FALSE
    /\ UNCHANGED <<traderVars, in_handler, outcome, sellLocals, quantity, phase,
                   since_eval, ever_eval, orderHist, stop_with_open, fnVars>>
    /\ UNCHANGED last_fill

\* Line 950: refresh_option_premium.
WbsPremium ==
    /\ pc = "wbs_premium"
    /\ \E p \in QuoteResults :
         /\ selected_option' = Refreshed(p)
         /\ iter_in' = [iter_in EXCEPT !.quote = QuoteKind(p)]
    /\ iter_log' = Append(iter_log, "premium")
    /\ pc' = After("wbs_premium")
    /\ UNCHANGED <<risk_factor, balanceVars, calculated_quantity, posVars,
                   trade_cycle, ledgerVars, primary_signal, confirm_signal,
                   is_running>>
    /\ UNCHANGED <<in_handler, outcome, sellLocals, quantity, since5, phase,
                   since_eval, ever_eval, first_iter, primary_fresh, orderHist,
                   stop_with_open, fnVars>>
    /\ UNCHANGED last_fill

\* Lines 953-958: the 2-minute history is fetched and evaluated.
WbsConfirm ==
    /\ pc = "wbs_confirm"
    /\ \E df_2min \in MarketData :
         /\ confirm_signal' = SignalOf(df_2min)
         /\ iter_in' = [iter_in EXCEPT !.confirm = FrameKind(df_2min, min_bars_buy)]
    /\ iter_log' = Append(iter_log, "confirm")
    /\ pc' = After("wbs_confirm")
    /\ UNCHANGED <<risk_factor, balanceVars, selected_option, calculated_quantity,
                   posVars, trade_cycle, ledgerVars, primary_signal, is_running>>
    /\ UNCHANGED <<in_handler, outcome, sellLocals, quantity, since5, phase,
                   since_eval, ever_eval, first_iter, primary_fresh, orderHist,
                   stop_with_open, fnVars>>
    /\ UNCHANGED last_fill

\* Lines 961-970: the 5-minute history is fetched and evaluated when the
\* refresh is due, and last_5min_check = now (the start of this iteration).
WbsPrimary ==
    /\ pc = "wbs_primary"
    /\ IF PrimaryRefreshDue(since5)
       THEN /\ \E df_5min \in MarketData :
                 /\ primary_signal' = SignalOf(df_5min)
                 /\ iter_in' = [iter_in EXCEPT
                                   !.primary = FrameKind(df_5min, min_bars_buy)]
            /\ since5' = 0
            /\ since_eval' = 0
            /\ ever_eval' = TRUE
            /\ primary_fresh' = TRUE
       ELSE /\ UNCHANGED <<primary_signal, since5, since_eval, ever_eval, iter_in>>
            /\ primary_fresh' = FALSE
    /\ iter_log' = Append(iter_log, "primary")
    /\ pc' = After("wbs_primary")
    /\ UNCHANGED <<risk_factor, balanceVars, selected_option, calculated_quantity,
                   posVars, trade_cycle, ledgerVars, confirm_signal, is_running>>
    /\ UNCHANGED <<in_handler, outcome, sellLocals, quantity, phase, first_iter,
                   orderHist, stop_with_open, fnVars>>
    /\ UNCHANGED last_fill

\* Lines 973-980: display_status, the check for double confirmation, and
\* the wait before the next iteration.  True sends run to execute_buy.
WbsDecide ==
    /\ pc = "wbs_decide"
    /\ iter_log' = Append(iter_log, "decide")
    /\ iter_in' = NoInputs
    /\ IF DoubleConfirmation(primary_signal, confirm_signal)
       THEN /\ pc' = "eb_balance"
            /\ since5' = primary_check_seconds
            /\ UNCHANGED since_eval
       ELSE /\ pc' = "wbs_top"
            /\ SleepInWait(confirm_check_seconds)
    /\ first_iter' = FALSE
    /\ UNCHANGED <<traderVars, in_handler, outcome, sellLocals, quantity, phase,
                   ever_eval, primary_fresh, orderHist, stop_with_open, fnVars>>
    /\ UNCHANGED last_fill

(* ---------------------------- execute_buy ----------------------------- *)

iterHist == <<since_eval, ever_eval, first_iter, primary_fresh, iter_log>>

\* Line 848: the recomputed quantity blocks the entry.
\* A plausible slip: only a negative quantity does.
QuantityBlocksEntry_Negative(q) == q < 0

QuantityBlocksEntry(q) == q <= 0

\* Step 1, line 842: refresh_balance_before_buy (may raise).
EbBalance ==
    /\ pc = "eb_balance"
    /\ \/ /\ pc' = "fatal"
          /\ UNCHANGED balanceVars
       \/ /\ \E b \in Balances : BalanceFetched(b)
          /\ pc' = "eb_size"
    /\ UNCHANGED <<risk_factor, selected_option, calculated_quantity, posVars,
                   trade_cycle, ledgerVars, primary_signal, confirm_signal,
                   is_running>>
    /\ UNCHANGED <<in_handler, outcome, sellLocals, quantity, since5, phase,
                   iterHist, orderHist, stop_with_open, fnVars>>
    /\ UNCHANGED <<last_fill, iter_in>>

\* A plausible slip: the order carries the quantity Phase 3 left on the
\* instance before the signals were awaited.
BuyQuantity_SizedBefore(recomputed, sized_before) == sized_before

\* Lines 846 and 853-856: place_buy_order is given the local quantity, the
\* value calculate_quantity has just returned.
BuyQuantity(recomputed, sized_before) == recomputed

\* Step 2, lines 845-850: refresh the premium, recompute the quantity, and
\* return False when it is not positive.
EbSize ==
    /\ pc = "eb_size"
    /\ \E p \in QuoteResults :
         LET opt == Refreshed(p)
             q == calculate_quantity(trading_capital, opt.ltp, lot_size)
         IN  /\ selected_option' = opt
             /\ calculated_quantity' =
                    IF opt.ltp * lot_size <= 0 THEN calculated_quantity ELSE q
             /\ quantity' = BuyQuantity(q, calculated_quantity)
             /\ pc' = IF QuantityBlocksEntry(q) THEN "eb_failed" ELSE "eb_place"
    /\ UNCHANGED <<risk_factor, balanceVars, posVars, trade_cycle, ledgerVars,
                   primary_signal, confirm_signal, is_running>>
    /\ UNCHANGED <<in_handler, outcome, sellLocals, since5, phase, iterHist,
                   orderHist, stop_with_open, fnVars>>
    /\ UNCHANGED <<last_fill, iter_in>>

\* A plausible slip: the order id is not looked at.
AfterBuyOrder_Always(order_id) == "eb_wait"

\* Lines 858 and 883: with an order id execute_buy waits for the fill,
\* without one it returns False.
AfterBuyOrder(order_id) == IF order_id THEN "eb_wait" ELSE "eb_failed"

\* Step 3, lines 853-856: place_buy_order yields an order id (TRUE) or
\* None (FALSE: kite.place_order raised).
EbPlace ==
    /\ pc = "eb_place"
    /\ \E order_id \in BOOLEAN :
         /\ buys_accepted' = IF order_id THEN buys_accepted + 1 ELSE buys_accepted
         /\ pc' = AfterBuyOrder(order_id)
    /\ UNCHANGED <<traderVars, in_handler, outcome, sellLocals, quantity, since5,
                   phase, iterHist, sells_accepted, positions_opened, last_sell,
                   stop_with_open, fnVars>>
    /\ UNCHANGED <<last_fill, iter_in>>

\* Lines 858-881: sleep(2), get_filled_price, and the position is recorded
\* at the filled price or, when that is 0, at the last premium.
EbWait ==
    /\ pc = "eb_wait"
    /\ Sleep(sleep_fill)
    /\ \E status \in OrderFills("BUY") :
         /\ last_fill' = status
         /\ entry_price' = FillOrFallback(get_filled_price(status),
                                          selected_option.ltp)
    /\ position_open' = TRUE
    /\ entry_time' = "set"
    /\ position_quantity' = quantity
    /\ position_symbol' = selected_option.tradingsymbol
    /\ positions_opened' = positions_opened + 1
    /\ quantity' = 0
    /\ pc' = "mon_top"
    /\ UNCHANGED <<risk_factor, balanceVars, selected_option, calculated_quantity,
                   trade_cycle, ledgerVars, primary_signal, confirm_signal,
                   is_running>>
    /\ UNCHANGED <<in_handler, outcome, sellLocals, phase, ever_eval, first_iter,
                   primary_fresh, iter_log, buys_accepted, sells_accepted,
                   last_sell, stop_with_open, fnVars>>
    /\ UNCHANGED iter_in

\* run, lines 1124-1127: execute_buy returned False; wait a minute.
EbFailed ==
    /\ pc = "eb_failed"
    /\ Sleep(sleep_retry)
    /\ quantity' = 0
    /\ pc' = "run_phase7"
    /\ UNCHANGED <<traderVars, in_handler, outcome, sellLocals, phase, ever_eval,
                   first_iter, primary_fresh, iter_log, orderHist, stop_with_open,
                   fnVars>>
    /\ UNCHANGED <<last_fill, iter_in>>

(* -------------------------- monitor_for_exit -------------------------- *)

\* execute_sell(reason) is entered; ret is where its caller goes on.
CallSell(reason, ret) ==
    /\ sell_reason' = reason
    /\ sell_ret' = ret
    /\ pc' = "es_entry"

\* Lines 988-997: the two market-close checks of monitor_for_exit.
\* A plausible slip: the monitor does not look at the market hours.
MarketCloseDue_Never == FALSE

MarketCloseDue == ~is_market_open \/ no_minutes_to_close

\* Lines 986-997: the loop condition, then the two market-close checks.
MonTop ==
    /\ pc = "mon_top"
    /\ IF is_running /\ position_open
       THEN IF MarketCloseDue
            THEN CallSell("market_close", "run_phase7")
            ELSE /\ pc' = "mon_check"
                 /\ UNCHANGED <<sell_reason, sell_ret>>
       ELSE /\ pc' = "run_phase7"
            /\ UNCHANGED <<sell_reason, sell_ret>>
    /\ iter_in' = NoInputs
    /\ UNCHANGED <<traderVars, in_handler, outcome, current_price, quantity, since5,
                   phase, iterHist, orderHist, stop_with_open, fnVars>>
    /\ UNCHANGED last_fill

\* Lines 1000-1022: the premium is refreshed (again by get_current_pnl), the
\* 2-minute history is fetched and, unless empty, checked for an exit.
MonCheck ==
    /\ pc = "mon_check"
    /\ \E p \in QuoteResults : selected_option' = Refreshed(p)
    /\ \E df_2min \in MarketData :
         LET r == check_exit_conditions(df_2min)
         IN  /\ iter_in' = [NoInputs EXCEPT
                               !.confirm = FrameKind(df_2min, min_bars_exit)]
             /\ IF df_2min.len # 0 /\ r.should_exit
                THEN /\ CallSell(r.exit_reason, "run_phase7")
                     /\ NoSleep
                ELSE /\ pc' = "mon_top"
                     /\ Sleep(confirm_check_seconds)
                     /\ UNCHANGED <<sell_reason, sell_ret>>
    /\ UNCHANGED <<risk_factor, balanceVars, calculated_quantity, posVars,
                   trade_cycle, ledgerVars, primary_signal, confirm_signal,
                   is_running>>
    /\ UNCHANGED <<in_handler, outcome, current_price, quantity, phase, ever_eval,
                   first_iter, primary_fresh, iter_log, orderHist, stop_with_open,
                   fnVars>>
    /\ UNCHANGED last_fill

(* ---------------------------- execute_sell ---------------------------- *)

\* execute_sell returns to its caller.
SellReturn ==
    /\ pc' = sell_ret
    /\ sell_reason' = "None"
    /\ sell_ret' = "None"
    /\ current_price' = 0

\* Lines 887-895: nothing to do without a position; else the current price
\* is the refreshed premium or, failing that, the last one.
EsEntry ==
    /\ pc = "es_entry"
    /\ IF ~position_open
       THEN /\ SellReturn
            /\ UNCHANGED selected_option
       ELSE \E p \in QuoteResults :
              /\ selected_option' = Refreshed(p)
              /\ current_price' = Refreshed(p).ltp
              /\ pc' = "es_place"
              /\ UNCHANGED <<sell_reason, sell_ret>>
    /\ UNCHANGED <<risk_factor, balanceVars, calculated_quantity, posVars,
                   trade_cycle, ledgerVars, primary_signal, confirm_signal,
                   is_running>>
    /\ UNCHANGED <<in_handler, outcome, quantity, since5, phase, iterHist,
                   orderHist, stop_with_open, fnVars>>
    /\ UNCHANGED <<last_fill, iter_in>>

\* A plausible slip: the order id is not looked at before the fill is
\* awaited and the trade recorded.
AfterSellOrder_Always(order_id) == "es_wait"

\* Lines 904 and 930: with an order id execute_sell waits for the fill,
\* without one it returns False.
AfterSellOrder(order_id) == IF order_id THEN "es_wait" ELSE "return"

\* Lines 898-904, 930: place_sell_order yields an order id (TRUE) or None
\* (FALSE: kite.place_order raised).
EsPlace ==
    /\ pc = "es_place"
    /\ \E order_id \in BOOLEAN :
         /\ sells_accepted' = IF order_id THEN sells_accepted + 1 ELSE sells_accepted
         /\ last_sell' = [reason |-> sell_reason, accepted |-> order_id]
         /\ IF AfterSellOrder(order_id) = "es_wait"
            THEN /\ pc' = "es_wait"
                 /\ UNCHANGED sellLocals
            ELSE SellReturn
    /\ UNCHANGED <<traderVars, in_handler, outcome, quantity, since5, phase,
                   iterHist, buys_accepted, positions_opened, stop_with_open,
                   fnVars>>
    /\ UNCHANGED <<last_fill, iter_in>>

\* record_trade: the record appended for a closed position.
TradeRecord(exit_price, reason) ==
    [symbol |-> position_symbol, entry_price |-> entry_price,
     exit_price |-> exit_price, quantity |-> position_quantity,
     pnl |-> (exit_price - entry_price) * position_quantity,
     exit_reason |-> reason]

\* Lines 905-928: sleep(2), get_filled_price, record_trade, and the
\* position state is reset.
EsWait ==
    /\ pc = "es_wait"
    /\ Sleep(sleep_fill)
    /\ \E status \in OrderFills("SELL") :
         LET exit_price == FillOrFallback(get_filled_price(status), current_price)
             trade == TradeRecord(exit_price, sell_reason)
         IN  /\ last_fill' = status
             /\ daily_trades' = Append(daily_trades, trade)
             /\ total_pnl' = total_pnl + trade.pnl
    /\ position_open' = FALSE
    /\ entry_price' = 0
    /\ entry_time' = "None"
    /\ position_quantity' = 0
    /\ position_symbol' = "None"
    /\ SellReturn
    /\ UNCHANGED <<risk_factor, balanceVars, selected_option, calculated_quantity,
                   trade_cycle, primary_signal, confirm_signal, is_running>>
    /\ UNCHANGED <<in_handler, outcome, quantity, phase, ever_eval, first_iter,
                   primary_fresh, iter_log, orderHist, stop_with_open, fnVars>>
    /\ UNCHANGED iter_in

(* ------------------------- run: the way out --------------------------- *)

\* Lines 1141-1144: after the loop, an open position is sold.
Eod ==
    /\ pc = "eod"
    /\ IF position_open
       THEN CallSell("market_close", "summary")
       ELSE /\ pc' = "summary"
            /\ UNCHANGED <<sell_reason, sell_ret>>
    /\ UNCHANGED <<traderVars, in_handler, outcome, current_price, quantity, since5,
                   phase, iterHist, orderHist, stop_with_open, fnVars>>
    /\ UNCHANGED <<last_fill, iter_in>>

\* Lines 1149-1155: except KeyboardInterrupt: an open position is sold.
KiHandler ==
    /\ pc = "ki_handler"
    /\ IF position_open
       THEN CallSell("user_stop", "summary")
       ELSE /\ pc' = "summary"
            /\ UNCHANGED <<sell_reason, sell_ret>>
    /\ UNCHANGED <<traderVars, in_handler, outcome, current_price, quantity, since5,
                   phase, iterHist, orderHist, stop_with_open, fnVars>>
    /\ UNCHANGED <<last_fill, iter_in>>

\* Lines 1147 and 1157: display_daily_summary.
Summary ==
    /\ pc = "summary"
    /\ pc' = "finally"
    /\ UNCHANGED <<traderVars, in_handler, outcome, sellLocals, quantity, since5,
                   phase, historyVars, fnVars>>

\* Lines 1159-1161: except Exception: log and raise.
Fatal ==
    /\ pc = "fatal"
    /\ outcome' = "raised"
    /\ pc' = "finally"
    /\ UNCHANGED <<traderVars, in_handler, sellLocals, quantity, since5, phase,
                   historyVars, fnVars>>

\* Lines 1163-1164: finally: is_running = False.
Finally ==
    /\ pc = "finally"
    /\ is_running' = FALSE
    /\ outcome' = IF outcome = "running" THEN "normal" ELSE outcome
    /\ pc' = "done"
    /\ UNCHANGED <<risk_factor, balanceVars, selected_option, calculated_quantity,
                   posVars, trade_cycle, ledgerVars, primary_signal, confirm_signal>>
    /\ UNCHANGED <<in_handler, sellLocals, quantity, since5, phase, historyVars,
                   fnVars>>

(* ------------------------------ the user ------------------------------ *)

InTry == pc \notin {"start", "fatal", "finally", "done"}

\* stop(), called from outside the loop's thread while run is under way.
Stop ==
    /\ InTry
    /\ is_running
    /\ is_running' = FALSE
    /\ stop_with_open' = (stop_with_open \/ position_open)
    /\ UNCHANGED <<risk_factor, balanceVars, selected_option, calculated_quantity,
                   posVars, trade_cycle, ledgerVars, primary_signal, confirm_signal>>
    /\ UNCHANGED <<controlVars, phase, iterHist, orderHist, fnVars>>
    /\ UNCHANGED <<last_fill, iter_in>>

\* KeyboardInterrupt raised at the current statement of the try block:
\* the statement is abandoned and the handler runs.
KeyboardInterrupt ==
    /\ InTry
    /\ ~in_handler
    /\ in_handler' = TRUE
    /\ outcome' = "interrupted"
    /\ stop_with_open' = (stop_with_open \/ position_open)
    /\ pc' = "ki_handler"
    /\ sell_reason' = "None"
    /\ sell_ret' = "None"
    /\ current_price' = 0
    /\ quantity' = 0
    /\ since5' = primary_check_seconds
    /\ first_iter' = FALSE
    /\ primary_fresh' = FALSE
    /\ iter_log' = <<>>
    /\ iter_in' = NoInputs
    /\ UNCHANGED <<traderVars, phase, since_eval, ever_eval, orderHist, fnVars>>
    /\ UNCHANGED last_fill

\* KeyboardInterrupt raised inside the handler: it propagates, through the
\* finally clause, out of run.
KeyboardInterruptInHandler ==
    /\ InTry
    /\ in_handler
    /\ pc' = "finally"
    /\ sell_reason' = "None"
    /\ sell_ret' = "None"
    /\ current_price' = 0
    /\ UNCHANGED <<traderVars, in_handler, outcome, quantity, since5, phase,
                   historyVars, fnVars>>

(* --------------------------- specification ---------------------------- *)

Next ==
    \/ RunStart
    \/ RunInit
    \/ RunWaitOpen
    \/ RunLoop
    \/ RunScan
    \/ RunSize
    \/ RunPhase7
    \/ WbsEnter
    \/ WbsTop
    \/ WbsPremium
    \/ WbsConfirm
    \/ WbsPrimary
    \/ WbsDecide
    \/ EbBalance
    \/ EbSize
    \/ EbPlace
    \/ EbWait
    \/ EbFailed
    \/ MonTop
    \/ MonCheck
    \/ EsEntry
    \/ EsPlace
    \/ EsWait
    \/ Eod
    \/ KiHandler
    \/ Summary
    \/ Fatal
    \/ Finally
    \/ MarketClock
    \/ Stop
    \/ KeyboardInterrupt
    \/ KeyboardInterruptInHandler

Spec == Init /\ [][Next]_vars

(* ----------------- a session with the fills in view ------------------ *)

\* One risk factor and one balance, but premiums that move between the
\* selection and the exit, a fill price that is neither of them, and every
\* order status.
FillEnv ==
    [risk_factors |-> {90}, balances |-> {100000}, premiums |-> {90, 100},
     fills |-> {95}, statuses |-> {"COMPLETE", "unavailable"},
     symbols |-> {"NIFTY25000CE"}, cycles |-> FillCycles]

InitFill ==
    /\ env = FillEnv
    /\ \E rf \in env.risk_factors : TraderInit(rf, "open")
    /\ fn_args = <<>>
    /\ fn_ret = <<>>

SpecFill == InitFill /\ [][Next]_vars

(* ------------------ a session with two instruments -------------------- *)

\* One risk factor, balance and premium, and a scanner whose best option may
\* be either of two strikes.
SymbolEnv ==
    [risk_factors |-> {90}, balances |-> {100000}, premiums |-> {90},
     fills |-> {90}, statuses |-> {"COMPLETE"},
     symbols |-> {"NIFTY25000CE", "NIFTY25100CE"}, cycles |-> MaxCycles]

InitSymbols ==
    /\ env = SymbolEnv
    /\ \E rf \in env.risk_factors : TraderInit(rf, "open")
    /\ fn_args = <<>>
    /\ fn_ret = <<>>

SpecSymbols == InitSymbols /\ [][Next]_vars

(* ------------------ a session under fair scheduling ------------------- *)

\* One risk factor, balance and premium; orders that fill or are rejected.
LiveEnv ==
    [risk_factors |-> {90}, balances |-> {100000}, premiums |-> {90},
     fills |-> {90}, statuses |-> {"COMPLETE", "REJECTED"},
     symbols |-> {"NIFTY25000CE"}, cycles |-> MaxCycles]

InitLive ==
    /\ env = LiveEnv
    /\ \E rf \in env.risk_factors, ph \in Phases : TraderInit(rf, ph)
    /\ fn_args = <<>>
    /\ fn_ret = <<>>

\* is_market_open compares the time of day with today's opening and closing
\* times (lines 186-203): past midnight the closed market is a market that
\* has not opened yet. Only the wait for the open (lines 1059-1060) spans a
\* night; every other statement of run takes seconds.
NextDay ==
    /\ pc = "run_wait_open"
    /\ phase = "closed"
    /\ phase' = "preopen"
    /\ UNCHANGED <<traderVars, controlVars, historyVars, fnVars>>

\* The steps of run itself: every statement returns, so the thread of run
\* always takes its next step.
ProgramStep ==
    \/ RunStart \/ RunInit \/ RunWaitOpen \/ RunLoop \/ RunScan \/ RunSize
    \/ RunPhase7 \/ WbsEnter \/ WbsTop \/ WbsPremium \/ WbsConfirm
    \/ WbsPrimary \/ WbsDecide \/ EbBalance \/ EbSize \/ EbPlace \/ EbWait
    \/ EbFailed \/ MonTop \/ MonCheck \/ EsEntry \/ EsPlace \/ EsWait \/ Eod
    \/ KiHandler \/ Summary \/ Fatal \/ Finally

NextLive == Next \/ NextDay

\* Time advances and run is scheduled; the user (stop, Ctrl-C) is under no
\* obligation. The wait for the open polls every 60 seconds and a session
\* lasts hours, so a poll that is possible again and again is made.
SpecLive ==
    /\ InitLive
    /\ [][NextLive]_vars
    /\ SF_vars(ProgramStep)
    /\ WF_vars(MarketClock)
    /\ WF_vars(NextDay)

(* ------------------- the position sizer on its own -------------------- *)

\* Inputs of the sizer: a balance, a risk factor (percent), a premium and a
\* lot size.
SizerBalances == {-10000, 0, 4000, 10000, 75000, 100000}
SizerRiskFactors == {0, 40, 90, 100}
SizerPremiums == {-5, 0, 1, 90, 100, 120}
SizerLots == {0, 1, 25, 75}

NotCalled == [done |-> FALSE, value |-> 0]

InitSizer ==
    /\ env = SessionEnv
    /\ TraderInit(90, "open")
    /\ fn_args \in [balance : SizerBalances, risk : SizerRiskFactors,
                    premium : SizerPremiums, lot : SizerLots]
    /\ fn_ret = NotCalled

\* get_account_balance followed by calculate_quantity(premium).
SizerCall ==
    /\ ~fn_ret.done
    /\ fn_ret' = [done |-> TRUE,
                  value |-> calculate_quantity(
                                TradingCapital(fn_args.balance, fn_args.risk),
                                fn_args.premium, fn_args.lot)]
    /\ UNCHANGED <<traderVars, controlVars, phase, historyVars, fn_args, env>>

NextSizer == SizerCall

SpecSizer == InitSizer /\ [][NextSizer]_vars

(* ------------------ the entry evaluator on its own -------------------- *)

\* Histories for the evaluator: a length, and the last two rows built from
\* one choice per indicator.  The last row's stoch_rsi_k is NaN below
\* StochKFirstLen rows and its rsi_14 below rsi_period rows, as stochastic_rsi
\* and rsi leave them.
SignalLens == {min_bars_buy - 1, min_bars_buy, StochKFirstLen - 1, StochKFirstLen, 2 * min_bars_buy}
SignalSupertrends == {Num(95), Num(105)}
SignalDirections == {Num(1), Num(-1)}
SignalEmaLows == {Num(97), Num(103)}
SignalEmaFasts == {Num(99), Num(97)}
SignalStochs == {Num(40), Num(60), NaN}
SignalPrevStochs == {Num(50), Num(70)}
SignalRsis == {Num(60), Num(70), NaN}
SignalPrevRsis == {Num(55), Num(65)}
SignalHists == {Num(1), Num(-1)}
SignalPrevHists == {Num(0), Num(-2)}

SignalFrames ==
    { Frame(n,
            Row(Num(100), st, dir, el, ef, Num(98), k, r, h),
            Row(Num(99), st, dir, el, ef, Num(98), pk, pr, ph),
            Row(Num(98), st, dir, el, ef, Num(98), pk, pr, ph)) :
        n \in SignalLens, st \in SignalSupertrends, dir \in SignalDirections,
        el \in SignalEmaLows, ef \in SignalEmaFasts,
        k \in SignalStochs, pk \in SignalPrevStochs,
        r \in SignalRsis, pr \in SignalPrevRsis,
        h \in SignalHists, ph \in SignalPrevHists }

WarmedUpAsComputed(df) ==
    /\ df.len < StochKFirstLen => df.current.stoch_rsi_k.nan
    /\ df.len < rsi_period => df.current.rsi_14.nan

InitSignal ==
    /\ env = SessionEnv
    /\ TraderInit(90, "open")
    /\ fn_args \in {df \in SignalFrames : WarmedUpAsComputed(df)}
    /\ fn_ret = NotCalled

\* check_buy_conditions(df) on a fetched history.
SignalCall ==
    /\ ~fn_ret.done
    /\ fn_ret' = [done |-> TRUE, value |-> check_buy_conditions(fn_args)]
    /\ UNCHANGED <<traderVars, controlVars, phase, historyVars, fn_args, env>>

NextSignal == SignalCall

SpecSignal == InitSignal /\ [][NextSignal]_vars

(* ------------------- the exit evaluator on its own -------------------- *)

\* Histories for the exit evaluator: a length of at least three bars (the
\* rows it reads), and the last three rows built from one choice per value
\* read.  ema_low_8, ema_8 and ema_9 are exponential averages from the
\* first row on, so short histories carry numbers there.
ExitLens == {min_bars_exit - 2, min_bars_exit - 1, min_bars_exit, 2 * min_bars_buy}
ExitCloses == {Num(94), Num(97)}
ExitEmaLows == {Num(96), NaN}
ExitPrevEmaLows == {Num(96), Num(97)}
ExitPrev2EmaLows == {Num(97), Num(98)}
ExitDirections == {Num(1), Num(-1)}
ExitEmaFasts == {Num(95), Num(99)}

ExitFrames ==
    { Frame(n,
            Row(c, Num(99), dir, el, ef, Num(96), Num(40), Num(50), Num(1)),
            Row(Num(96), Num(99), dir, pel, ef, Num(96), Num(45), Num(52), Num(1)),
            Row(Num(98), Num(99), dir, p2el, ef, Num(96), Num(50), Num(55), Num(1))) :
        n \in ExitLens, c \in ExitCloses, el \in ExitEmaLows,
        pel \in ExitPrevEmaLows, p2el \in ExitPrev2EmaLows,
        dir \in ExitDirections, ef \in ExitEmaFasts }

InitExit ==
    /\ env = SessionEnv
    /\ TraderInit(90, "open")
    /\ fn_args \in ExitFrames
    /\ fn_ret = NotCalled

\* check_exit_conditions(df_2min) on a fetched history.
ExitCall ==
    /\ ~fn_ret.done
    /\ fn_ret' = [done |-> TRUE, value |-> check_exit_conditions(fn_args)]
    /\ UNCHANGED <<traderVars, controlVars, phase, historyVars, fn_args, env>>

NextExit == ExitCall

SpecExit == InitExit /\ [][NextExit]_vars

(* ---------------------- the indicators on their own ------------------- *)

\* Close series: every sequence over three price levels, just long enough
\* for the smoothed %D to be defined on the last bar.
IndLen == 4 * IndWindow - 3
PriceLevels == {10, 11, 13}

InitIndicators ==
    /\ env = SessionEnv
    /\ TraderInit(90, "open")
    /\ fn_args \in [close : [1..IndLen -> PriceLevels]]
    /\ fn_ret = NotCalled

\* A history whose RSI and %K columns are the given series and whose other
\* columns satisfy their conditions.
WithMomentum(n, rsi_14, stoch_rsi_k) ==
    LET At(row, i) == IF i < 1 THEN row
                      ELSE [row EXCEPT !.rsi_14 = rsi_14[i], !.stoch_rsi_k = stoch_rsi_k[i]]
    IN  Frame(n, At(BullRow, n), At(BullPrev, n - 1), At(BullPrev, n - 2))

\* ema, rsi and stochastic_rsi applied to one close series, and the seven
\* conditions of check_buy_conditions evaluated on the last rows.
IndicatorsCall ==
    /\ ~fn_ret.done
    /\ LET close == Series([i \in 1..IndLen |-> Num(fn_args.close[i])], IndLen)
           rsi_14 == rsi(close, IndWindow)
           stoch == stochastic_rsi(close, IndWindow, IndWindow, IndWindow, IndWindow)
       IN  fn_ret' = [done |-> TRUE,
                      value |-> [close |-> close,
                                 ema |-> ema(close, IndWindow),
                                 rsi |-> rsi_14,
                                 stoch |-> stoch,
                                 eligible |-> AllConditionsMet(BuyConditions(
                                     WithMomentum(IndLen, rsi_14, stoch.k)))]]
    /\ UNCHANGED <<traderVars, controlVars, phase, historyVars, fn_args, env>>

NextIndicators == IndicatorsCall

SpecIndicators == InitIndicators /\ [][NextIndicators]_vars

(* ------------------------ supertrend on its own ----------------------- *)

\* Candles: the close moves over the price levels, the high and the low lie
\* a fixed distance above and below it.
SuperLen == IndWindow + 3
HighOffsets == {0, 1}
Multipliers == {1, 3}

InitSupertrend ==
    /\ env = SessionEnv
    /\ TraderInit(90, "open")
    /\ fn_args \in [close : [1..SuperLen -> PriceLevels], offset : HighOffsets,
                    multiplier : Multipliers]
    /\ fn_ret = NotCalled

SupertrendCall ==
    /\ ~fn_ret.done
    /\ LET close == Series([i \in 1..SuperLen |-> Num(fn_args.close[i])], SuperLen)
           high == Series([i \in 1..SuperLen |-> Num(fn_args.close[i] + fn_args.offset)],
                          SuperLen)
           low == Series([i \in 1..SuperLen |-> Num(fn_args.close[i] - fn_args.offset)],
                         SuperLen)
       IN  fn_ret' = [done |-> TRUE,
                      value |-> [close |-> close,
                                 st |-> supertrend(high, low, close, IndWindow,
                                                   fn_args.multiplier)]]
    /\ UNCHANGED <<traderVars, controlVars, phase, historyVars, fn_args, env>>

NextSupertrend == SupertrendCall

SpecSupertrend == InitSupertrend /\ [][NextSupertrend]_vars

(* ------------------------ a steadily rising market -------------------- *)

\* Histories of up to ScenarioBars bars whose close rises by a constant
\* step, one step per timeframe, evaluated with the windows of
\* calculate_all_indicators; the account of the worked sizing example.
ScenarioBars == 40
ScenarioSteps == {1, 2, 5}
ScenarioFirstClose == 20000

InitScenario ==
    /\ env = SessionEnv
    /\ TraderInit(90, "open")
    /\ fn_args \in [bars : (min_bars_buy - 1)..ScenarioBars,
                    step_5min : ScenarioSteps, step_2min : ScenarioSteps]
    /\ fn_ret = NotCalled

\* The history of one timeframe after calculate_all_indicators.
RisingHistory(bars, step) ==
    LET close == Series([i \in 1..bars |-> Num(ScenarioFirstClose + (i - 1) * step)], bars)
        rsi_14 == rsi(close, rsi_period)
        stoch == stochastic_rsi(close, rsi_period, stoch_period, smooth_k, smooth_d)
    IN  [rsi |-> rsi_14, k |-> stoch.k, df |-> WithMomentum(bars, rsi_14, stoch.k)]

\* Both evaluators on the rising histories, the check for double
\* confirmation, and the sizer on balance 100000, risk factor 0.9, premium 100.
ScenarioOutcome(h5, h2, primary, confirm) ==
    [rsi_5min |-> h5.rsi, rsi_2min |-> h2.rsi,
     k_5min |-> h5.k, k_2min |-> h2.k,
     primary |-> primary, confirm |-> confirm,
     entry |-> DoubleConfirmation(primary, confirm),
     quantity |-> calculate_quantity(TradingCapital(100000, 90), 100, lot_size)]

ScenarioSignals(h5, h2) ==
    ScenarioOutcome(h5, h2, check_buy_conditions(h5.df).signal,
                    check_buy_conditions(h2.df).signal)

ScenarioCall ==
    /\ ~fn_ret.done
    /\ fn_ret' = [done |-> TRUE,
                  value |-> ScenarioSignals(
                      RisingHistory(fn_args.bars, fn_args.step_5min),
                      RisingHistory(fn_args.bars, fn_args.step_2min))]
    /\ UNCHANGED <<traderVars, controlVars, phase, historyVars, fn_args, env>>

NextScenario == ScenarioCall

SpecScenario == InitScenario /\ [][NextScenario]_vars

(* ------------------- the other strategy programs ---------------------- *)
(* check_buy_conditions of src/nifty_call_option_strategy.py and of        *)
(* NiftyBuyStrategy in src/nifty_strategy.py, on a history whose indicator *)
(* columns are already computed.                                           *)

\* nifty_call_option_strategy.py, lines 560-597: rsi_good is computed but is
\* not in the list given to all().
call_option_check_buy_conditions(df) ==
    IF df.len < 3
    THEN [signal |-> FALSE, conditions |-> [rsi_good |-> FALSE]]
    ELSE LET curr == df.current
             prev == df.prev
             supertrend_bullish == EQ(curr.supertrend_direction, Num(1))
             price_above_st == GT(curr.close, curr.supertrend)
             price_above_ema_low == GT(curr.close, curr.ema_low_8)
             ema_bullish == GT(curr.ema_8, curr.ema_9)
             stoch_rsi_good == \/ LT(curr.stoch_rsi_k, Num(50))
                               \/ GT(curr.stoch_rsi_k, prev.stoch_rsi_k)
             rsi_good == LT(curr.rsi_14, Num(65)) /\ GT(curr.rsi_14, prev.rsi_14)
             macd_good == GT(curr.macd_hist, Num(0)) \/ GT(curr.macd_hist, prev.macd_hist)
             all_met == /\ supertrend_bullish
                        /\ price_above_st
                        /\ price_above_ema_low
                        /\ ema_bullish
                        /\ stoch_rsi_good
                        /\ macd_good
         IN  [signal |-> all_met, conditions |-> [rsi_good |-> rsi_good]]

\* nifty_strategy.py, lines 264-329: a crossover with SuperTrend and EMA
\* bullish is a buy signal of its own.
nifty_strategy_check_buy_conditions(df) ==
    IF df.len < 3
    THEN [signal |-> FALSE, all_conditions_met |-> FALSE]
    ELSE LET curr == df.current
             prev == df.prev
             supertrend_bullish == EQ(curr.supertrend_direction, Num(1))
             price_above_supertrend == GT(curr.close, curr.supertrend)
             supertrend_crossover == /\ EQ(curr.supertrend_direction, Num(1))
                                     /\ EQ(prev.supertrend_direction, Num(-1))
             price_above_ema_low == GT(curr.close, curr.ema_low_8)
             ema_bullish == GT(curr.ema_8, curr.ema_9)
             ema_crossover == GT(curr.ema_8, curr.ema_9) /\ LE(prev.ema_8, prev.ema_9)
             stoch_rsi_good == \/ LT(curr.stoch_rsi_k, Num(50))
                               \/ GT(curr.stoch_rsi_k, prev.stoch_rsi_k)
             rsi_good == LT(curr.rsi_14, Num(65)) /\ GT(curr.rsi_14, prev.rsi_14)
             macd_good == GT(curr.macd_hist, Num(0)) \/ GT(curr.macd_hist, prev.macd_hist)
             all_conditions_met == /\ supertrend_bullish
                                   /\ price_above_supertrend
                                   /\ price_above_ema_low
                                   /\ ema_bullish
                                   /\ stoch_rsi_good
                                   /\ rsi_good
                                   /\ macd_good
             crossover_signal == supertrend_crossover \/ ema_crossover
             is_buy == \/ all_conditions_met
                       \/ crossover_signal /\ supertrend_bullish /\ ema_bullish
         IN  [signal |-> is_buy, all_conditions_met |-> all_conditions_met]

\* Histories for both: a length on either side of the guard, and the last
\* two rows built from one choice per value read, the previous row's
\* direction and fast EMA included.
StrategyFrames ==
    { Frame(n,
            Row(Num(100), st, dir, el, ef, Num(98), k, r, h),
            Row(Num(99), st, pdir, el, pef, Num(98), pk, pr, ph),
            Row(Num(98), st, pdir, el, pef, Num(98), pk, pr, ph)) :
        n \in {2, 3, 40}, st \in SignalSupertrends,
        dir \in SignalDirections, pdir \in SignalDirections,
        el \in SignalEmaLows, ef \in SignalEmaFasts, pef \in SignalEmaFasts,
        k \in SignalStochs, pk \in SignalPrevStochs,
        r \in SignalRsis, pr \in SignalPrevRsis,
        h \in SignalHists, ph \in SignalPrevHists }

InitStrategies ==
    /\ env = SessionEnv
    /\ TraderInit(90, "open")
    /\ fn_args \in StrategyFrames
    /\ fn_ret = NotCalled

StrategiesCall ==
    /\ ~fn_ret.done
    /\ fn_ret' = [done |-> TRUE,
                  value |-> [call_option |-> call_option_check_buy_conditions(fn_args),
                             nifty |-> nifty_strategy_check_buy_conditions(fn_args)]]
    /\ UNCHANGED <<traderVars, controlVars, phase, historyVars, fn_args, env>>

NextStrategies == StrategiesCall

SpecStrategies == InitStrategies /\ [][NextStrategies]_vars

(* ---------------- run of nifty_call_option_strategy.py ---------------- *)
(* The polling loop of the second trader (lines 802-1039) on the state of  *)
(* the first: self.position is position_open with its entry fields.  The   *)
(* environment is the broker and the wall clock; the opening period and    *)
(* KeyboardInterrupt are left out.                                         *)

\* Variables the statements of the loop body never write.
coFrame == <<risk_factor, calculated_quantity, entry_time, is_running, in_handler,
             outcome, sell_ret, quantity, since5, since_eval, ever_eval, first_iter,
             primary_fresh, iter_log, stop_with_open, last_fill, iter_in, fnVars>>

InitCallOption ==
    /\ env = SessionEnv
    /\ \E rf \in env.risk_factors, ph \in {"preopen", "open"} : TraderInit(rf, ph)
    /\ fn_args = <<>>
    /\ fn_ret = <<>>

\* Lines 802-840: the banner, the scanner's instruments, the first balance.
CoStart ==
    /\ pc = "start"
    /\ pc' = "co_top"
    /\ \E b \in Balances :
         /\ available_balance' = b
         /\ trading_capital' = TradingCapital(b, risk_factor)
    /\ UNCHANGED <<selected_option, posVars, trade_cycle, ledgerVars, primary_signal,
                   confirm_signal, sell_reason, current_price, orderHist, phase, coFrame>>

\* Lines 855-910: the market-hours check, then the cycle counter, the
\* balance, the scanner, the candles, the spot price and both evaluators.
CoTop ==
    /\ pc = "co_top"
    /\ IF ~is_market_open
       THEN /\ pc' = IF daily_trades # <<>> THEN "co_done" ELSE "co_closed_wait"
            /\ UNCHANGED <<balanceVars, selected_option, trade_cycle, primary_signal,
                           confirm_signal>>
       ELSE /\ ~position_open => trade_cycle < env.cycles
            /\ trade_cycle' = IF position_open THEN trade_cycle ELSE trade_cycle + 1
            /\ IF position_open
               THEN UNCHANGED balanceVars
               ELSE \E b \in Balances :
                        /\ available_balance' = b
                        /\ trading_capital' = TradingCapital(b, risk_factor)
            /\ IF selected_option = NoOption \/ ~position_open
               THEN \E opt \in {NoOption} \cup
                               [tradingsymbol : Symbols, ltp : ScannerPremiums] :
                        selected_option' = opt
               ELSE UNCHANGED selected_option
            /\ IF selected_option' = NoOption
               THEN /\ pc' = "co_top"
                    /\ UNCHANGED <<primary_signal, confirm_signal>>
               ELSE \E fetched \in BOOLEAN :
                        IF ~fetched
                        THEN /\ pc' = "co_top"
                             /\ UNCHANGED <<primary_signal, confirm_signal>>
                        ELSE /\ primary_signal' \in BOOLEAN
                             /\ confirm_signal' \in BOOLEAN
                             /\ pc' = IF position_open THEN "co_manage" ELSE "co_entry"
    /\ UNCHANGED <<posVars, ledgerVars, sell_reason, current_price, orderHist, phase,
                   coFrame>>

\* Lines 857-862: the market is closed and nothing was traded: sleep(60).
CoClosedWait ==
    /\ pc = "co_closed_wait"
    /\ pc' = "co_top"
    /\ UNCHANGED <<balanceVars, selected_option, posVars, trade_cycle, ledgerVars,
                   primary_signal, confirm_signal, sell_reason, current_price,
                   orderHist, phase, coFrame>>

\* Lines 913-965: with a position, the premium, the exit evaluator, the
\* forced exit in the last minute, and the SELL.
CoManage ==
    /\ pc = "co_manage"
    /\ \E current_premium \in Premiums \cup {0},
          exit \in {"None", "EMA_LOW_FALLING", "STRONG_BEARISH"},
          success \in BOOLEAN :
         LET exit_reason == IF no_minutes_to_close THEN "MARKET_CLOSE" ELSE exit
         IN  IF current_premium = 0 \/ exit_reason = "None"
             THEN /\ pc' = "co_top"
                  /\ UNCHANGED <<selected_option, posVars, ledgerVars, sell_reason,
                                 current_price, orderHist>>
             ELSE /\ sell_reason' = exit_reason
                  /\ current_price' = current_premium
                  /\ last_sell' = [reason |-> exit_reason, accepted |-> success]
                  /\ IF success
                     THEN /\ sells_accepted' = sells_accepted + 1
                          /\ daily_trades' =
                                 Append(daily_trades, TradeRecord(current_premium, exit_reason))
                          /\ total_pnl' = total_pnl
                                 + (current_premium - entry_price) * position_quantity
                          /\ position_open' = FALSE
                          /\ entry_price' = 0
                          /\ position_quantity' = 0
                          /\ position_symbol' = "None"
                          /\ selected_option' = NoOption
                          /\ pc' = IF should_stop_new_trades THEN "co_done" ELSE "co_top"
                     ELSE /\ pc' = "co_top"
                          /\ UNCHANGED <<sells_accepted, ledgerVars, position_open,
                                         entry_price, position_quantity, position_symbol,
                                         selected_option>>
                  /\ UNCHANGED <<buys_accepted, positions_opened>>
    /\ UNCHANGED <<balanceVars, trade_cycle, primary_signal, confirm_signal, phase,
                   coFrame>>

\* Lines 967-1029: without a position, the entry on double confirmation.
CoEntry ==
    /\ pc = "co_entry"
    /\ pc' = "co_top"
    /\ IF primary_signal /\ confirm_signal /\ ~should_stop_new_trades
       THEN \E b \in Balances, current_premium \in Premiums \cup {0},
               success \in BOOLEAN :
                LET capital == TradingCapital(b, risk_factor)
                    qty == calculate_quantity(capital, current_premium, lot_size)
                IN  /\ available_balance' = b
                    /\ trading_capital' = capital
                    /\ IF current_premium = 0
                       THEN UNCHANGED <<selected_option, posVars, buys_accepted,
                                        positions_opened>>
                       ELSE /\ selected_option' =
                                   [selected_option EXCEPT !.ltp = current_premium]
                            /\ IF qty > 0 /\ success
                               THEN /\ position_open' = TRUE
                                    /\ entry_price' = current_premium
                                    /\ position_quantity' = qty
                                    /\ position_symbol' = selected_option.tradingsymbol
                                    /\ buys_accepted' = buys_accepted + 1
                                    /\ positions_opened' = positions_opened + 1
                               ELSE UNCHANGED <<position_open, entry_price,
                                                position_quantity, position_symbol,
                                                buys_accepted, positions_opened>>
       ELSE UNCHANGED <<balanceVars, selected_option, posVars, buys_accepted,
                        positions_opened>>
    /\ UNCHANGED <<entry_time, trade_cycle, ledgerVars, primary_signal, confirm_signal,
                   sell_reason, current_price, sells_accepted, last_sell, phase>>
    /\ UNCHANGED <<risk_factor, calculated_quantity, is_running, in_handler, outcome,
                   sell_ret, quantity, since5, since_eval, ever_eval, first_iter,
                   primary_fresh, iter_log, stop_with_open, last_fill, iter_in, fnVars>>

NextCallOption ==
    \/ CoStart
    \/ CoTop
    \/ CoClosedWait
    \/ CoManage
    \/ CoEntry
    \/ MarketClock

SpecCallOption == InitCallOption /\ [][NextCallOption]_vars

\* Lines 1031-1036: KeyboardInterrupt raised at any statement of the try
\* block: the handler logs, warns about an open position, displays the
\* daily summary and leaves the loop.
CoKeyboardInterrupt ==
    /\ pc \in {"co_top", "co_closed_wait", "co_manage", "co_entry"}
    /\ outcome' = "interrupted"
    /\ stop_with_open' = position_open
    /\ pc' = "co_done"
    /\ UNCHANGED <<traderVars, in_handler, sell_reason, sell_ret, quantity,
                   current_price, since5, phase, since_eval, ever_eval, first_iter,
                   primary_fresh, iter_log, orderHist, last_fill, iter_in, fnVars>>

NextCallOptionUser ==
    \/ NextCallOption
    \/ CoKeyboardInterrupt

\* The same program with a user who may press Ctrl+C.
SpecCallOptionUser == InitCallOption /\ [][NextCallOptionUser]_vars

(* ------------------- run of NiftyBuyStrategy --------------------------- *)
(* The loop of NiftyBuyStrategy.run (src/nifty_strategy.py, lines 499-583)  *)
(* in simulation: self.position is position_open, and fn_args keeps the     *)
(* 2-minute history on which the latest SELL was decided.                   *)

\* check_sell_condition_2min: (is_sell or strong_sell, conditions).
check_sell_condition_2min(df) ==
    IF df.len < 3
    THEN [signal |-> FALSE, is_sell |-> FALSE, strong_sell |-> FALSE,
          supertrend_bearish |-> FALSE]
    ELSE LET curr == df.current
             prev == df.prev
             prev2 == df.prev2
             ema_low_falling == /\ LT(curr.ema_low_8, prev.ema_low_8)
                                /\ LT(prev.ema_low_8, prev2.ema_low_8)
             price_below_ema_low == LT(curr.close, curr.ema_low_8)
             supertrend_bearish == EQ(curr.supertrend_direction, Num(-1))
             ema_bearish == LT(curr.ema_8, curr.ema_9)
             is_sell == ema_low_falling /\ price_below_ema_low
             strong_sell == supertrend_bearish /\ ema_bearish /\ price_below_ema_low
         IN  [signal |-> is_sell \/ strong_sell, is_sell |-> is_sell,
              strong_sell |-> strong_sell, supertrend_bearish |-> supertrend_bearish]

\* Line 556: the reason given to place_sell_order.
SellReason(sell_cond) ==
    IF sell_cond.supertrend_bearish THEN "STRONG_BEARISH" ELSE "EMA_LOW_FALLING"

\* A falling EMA on low with the price below it, under a bearish SuperTrend
\* while EMA 8 is still above EMA 9.
FallingBearishFrame ==
    Frame(2 * min_bars_buy, [FallRow EXCEPT !.supertrend_direction = Num(-1)],
          FallPrev, FallPrev2)

\* Histories of at least 30 bars get_historical_data may yield.
NiftyData == {BullFrame, FlatRsiFrame, FallingFrame, BearFrame, FallingBearishFrame}

InitNifty ==
    /\ env = SessionEnv
    /\ TraderInit(90, "open")
    /\ fn_args = EmptyFrame
    /\ fn_ret = <<>>

\* Lines 499-518: the banner, iteration = 0, last_5min_check = 0.
NbsStart ==
    /\ pc = "start"
    /\ pc' = "nbs_loop"
    /\ since5' = primary_check_seconds
    /\ UNCHANGED <<traderVars, in_handler, outcome, sell_reason, sell_ret, quantity,
                   current_price, phase, historyVars, fnVars>>

\* Lines 520-572: one iteration of the loop.
NbsIteration ==
    /\ pc = "nbs_loop"
    /\ position_open \/ positions_opened < env.cycles
    /\ pc' = "nbs_loop"
    /\ \/ \* lines 526-532: a history is missing or shorter than 30 bars
          /\ \E d \in 0..MaxJitter : since5' = Elapse(since5, sleep_cycle, d)
          /\ UNCHANGED <<posVars, primary_signal, confirm_signal, sell_reason,
                         current_price, orderHist, fn_args>>
       \/ \E df_5min \in NiftyData, df_2min \in NiftyData :
            LET price == df_2min.current.close.v
                due == PrimaryRefreshDue(since5)
                primary == IF due
                           THEN nifty_strategy_check_buy_conditions(df_5min).signal
                           ELSE primary_signal
                confirm == nifty_strategy_check_buy_conditions(df_2min).signal
                sell == check_sell_condition_2min(df_2min)
                last_5min_check == IF due THEN 0 ELSE since5
            IN  /\ primary_signal' = primary
                /\ confirm_signal' = confirm
                /\ IF position_open /\ sell.signal
                   THEN \* lines 552-560: place_sell_order, then continue
                        /\ position_open' = FALSE
                        /\ entry_price' = 0
                        /\ sell_reason' = SellReason(sell)
                        /\ current_price' = price
                        /\ last_sell' = [reason |-> SellReason(sell), accepted |-> TRUE]
                        /\ sells_accepted' = sells_accepted + 1
                        /\ fn_args' = df_2min
                        /\ since5' = last_5min_check
                        /\ UNCHANGED <<entry_time, position_quantity, position_symbol,
                                       buys_accepted, positions_opened>>
                   ELSE /\ IF ~position_open /\ primary /\ confirm
                           THEN \* lines 563-568: place_buy_order
                                /\ position_open' = TRUE
                                /\ entry_price' = price
                                /\ entry_time' = "set"
                                /\ buys_accepted' = buys_accepted + 1
                                /\ positions_opened' = positions_opened + 1
                           ELSE UNCHANGED <<position_open, entry_price, entry_time,
                                            buys_accepted, positions_opened>>
                        /\ \E d \in 0..MaxJitter :
                             since5' = Elapse(last_5min_check, confirm_check_seconds, d)
                        /\ UNCHANGED <<position_quantity, position_symbol, sell_reason,
                                       current_price, last_sell, sells_accepted, fn_args>>
    /\ UNCHANGED <<risk_factor, balanceVars, selected_option, calculated_quantity,
                   trade_cycle, ledgerVars, is_running>>
    /\ UNCHANGED <<in_handler, outcome, sell_ret, quantity, phase, since_eval,
                   ever_eval, first_iter, primary_fresh, iter_log, stop_with_open,
                   last_fill, iter_in, fn_ret, env>>

\* Lines 574-578: KeyboardInterrupt: a warning about an open position, break.
NbsKeyboardInterrupt ==
    /\ pc = "nbs_loop"
    /\ outcome' = "interrupted"
    /\ stop_with_open' = position_open
    /\ pc' = "nbs_done"
    /\ UNCHANGED <<traderVars, in_handler, sell_reason, sell_ret, quantity,
                   current_price, since5, phase, since_eval, ever_eval, first_iter,
                   primary_fresh, iter_log, orderHist, last_fill, iter_in, fnVars>>

NextNifty ==
    \/ NbsStart
    \/ NbsIteration
    \/ NbsKeyboardInterrupt

SpecNifty == InitNifty /\ [][NextNifty]_vars

(* ---------------------- the offset of the EMA on low ------------------ *)
(* calculate_all_indicators with two offsets of ema_on_low on the same     *)
(* candles, and both evaluators on each result.                            *)

\* Low prices: a level held up to the last three bars, which vary.
EmaLowLen == min_bars_buy
LowLevels == {90, 96, 102}
EmaLowOffsets == {1, 2, ema_low_offset}
EmaLowTemplates == {BullFrame, FallingFrame, BearFrame}

InitEmaLow ==
    /\ env = SessionEnv
    /\ TraderInit(90, "open")
    /\ fn_args \in [base : LowLevels, tail : [1..3 -> LowLevels],
                    template : EmaLowTemplates,
                    offset_a : EmaLowOffsets, offset_b : EmaLowOffsets]
    /\ fn_ret = NotCalled

\* The low column of the history.
LowSeries(base, tail) ==
    Series([i \in 1..EmaLowLen |->
               Num(IF i <= EmaLowLen - 3 THEN base ELSE tail[i - (EmaLowLen - 3)])],
           EmaLowLen)

\* Lines 238-239: the columns ema_low_8 and ema_low_8_offset9 of the
\* history, the other columns being those of the template.
WithEmaLow(template, cols) ==
    LET At(row, i) == [close |-> row.close, supertrend |-> row.supertrend,
                       supertrend_direction |-> row.supertrend_direction,
                       ema_low_8 |-> cols.ema_values[i],
                       ema_low_8_offset9 |-> cols.ema_offset[i],
                       ema_8 |-> row.ema_8, ema_9 |-> row.ema_9,
                       stoch_rsi_k |-> row.stoch_rsi_k, rsi_14 |-> row.rsi_14,
                       macd_hist |-> row.macd_hist]
    IN  Frame(EmaLowLen, At(template.current, EmaLowLen),
              At(template.prev, EmaLowLen - 1), At(template.prev2, EmaLowLen - 2))

\* Both decisions on one history, and the shifted column they may not read.
EmaLowDecisions(df) ==
    [buy |-> check_buy_conditions(df),
     exit |-> check_exit_conditions(df),
     ema_low_8 |-> df.current.ema_low_8,
     ema_low_8_offset9 |-> <<df.current.ema_low_8_offset9, df.prev.ema_low_8_offset9,
                             df.prev2.ema_low_8_offset9>>]

EmaLowRun(template, low, offset) ==
    EmaLowDecisions(WithEmaLow(template, ema_on_low(low, ema_low_period, offset)))

EmaLowCall ==
    /\ ~fn_ret.done
    /\ fn_ret' = [done |-> TRUE,
                  value |-> [a |-> EmaLowRun(fn_args.template,
                                             LowSeries(fn_args.base, fn_args.tail),
                                             fn_args.offset_a),
                             b |-> EmaLowRun(fn_args.template,
                                             LowSeries(fn_args.base, fn_args.tail),
                                             fn_args.offset_b)]]
    /\ UNCHANGED <<traderVars, controlVars, phase, historyVars, fn_args, env>>

NextEmaLow == EmaLowCall

SpecEmaLow == InitEmaLow /\ [][NextEmaLow]_vars

(* ============================ properties ============================== *)

\* A step of the program (not of the clock or the user) taken at label l.
StepFrom(l) == pc = l /\ pc' \notin {l, "ki_handler", "finally"}

\* C1: at most one position is open at a time: a BUY order is submitted
\* only while position_open is false, a SELL order only while it is true,
\* and the positions opened exceed the positions closed by one exactly
\* when position_open is true.
C1_SinglePosition ==
    /\ pc = "eb_place" => ~position_open
    /\ pc = "eb_wait" => ~position_open
    /\ pc \in {"es_place", "es_wait"} => position_open
    /\ positions_opened - Len(daily_trades) = IF position_open THEN 1 ELSE 0

\* C1 witness: a second position is open after the first one was closed.
C1_Witness ==
    /\ positions_opened = 2
    /\ Len(daily_trades) = 1
    /\ position_open

\* C2: wait_for_buy_signal returns True (run goes on to execute_buy) in an
\* iteration if and only if both flags are true at the iteration's check
\* for double confirmation; execute_buy is reached in no other way.
C2_DoubleConfirmation ==
    [][ /\ (pc = "wbs_decide" /\ pc' \in {"eb_balance", "wbs_top"})
              => /\ pc' = "eb_balance" <=> (primary_signal /\ confirm_signal)
                 /\ UNCHANGED <<primary_signal, confirm_signal>>
        /\ (pc # "eb_balance" /\ pc' = "eb_balance")
              => (pc = "wbs_decide" /\ primary_signal /\ confirm_signal)
      ]_vars

\* C2 witness: entry fires on a primary flag that was true (and reused) in
\* an iteration whose confirmation flag alone was missing before.
C2_Witness ==
    /\ pc = "eb_balance"
    /\ ~primary_fresh
    /\ primary_signal /\ confirm_signal

\* C3 as stated: in an iteration, the primary flag (once it has been
\* evaluated) is evaluated again exactly when primary_check_seconds have
\* elapsed since the iteration of its last evaluation, and is otherwise
\* left as it was; the confirmation flag is evaluated in every iteration.
C3_PrimaryCadence_AsStated ==
    [][ (pc = "wbs_primary" /\ pc' = "wbs_decide" /\ ever_eval)
          => /\ primary_fresh' <=> (since_eval >= primary_check_seconds)
             /\ ~primary_fresh' => primary_signal' = primary_signal
             /\ Len(iter_log) >= 2 /\ iter_log[2] = "confirm"
      ]_vars

\* C3 amended: in an iteration, the primary flag is evaluated exactly when
\* the iteration is the first of its call of wait_for_buy_signal or
\* primary_check_seconds have elapsed since the iteration of its last
\* evaluation; otherwise it is left as it was; the confirmation flag is
\* evaluated in every iteration.
C3_PrimaryCadence ==
    [][ (pc = "wbs_primary" /\ pc' = "wbs_decide")
          => /\ primary_fresh' <=> (first_iter \/ since_eval >= primary_check_seconds)
             /\ ~primary_fresh' => primary_signal' = primary_signal
             /\ Len(iter_log) >= 2 /\ iter_log[2] = "confirm"
      ]_vars

\* C3 witness: an iteration reuses a primary flag evaluated true earlier.
C3_Witness ==
    /\ pc = "wbs_decide"
    /\ ~primary_fresh
    /\ ever_eval
    /\ primary_signal
    /\ since_eval < primary_check_seconds

\* C4: within an iteration the confirmation timeframe is evaluated before
\* the refresh decision for the primary timeframe is taken, both flags are
\* final before the check for double confirmation, and no flag is written
\* from that check to the end of the iteration.
C4_IterationOrder ==
    [][ /\ pc' = "wbs_primary" => iter_log' = <<"premium", "confirm">>
        /\ pc' = "wbs_decide" => iter_log' = <<"premium", "confirm", "primary">>
        /\ confirm_signal' # confirm_signal => pc = "wbs_confirm"
        /\ primary_signal' # primary_signal => pc = "wbs_primary"
        /\ pc = "wbs_decide" => UNCHANGED <<primary_signal, confirm_signal>>
      ]_vars

\* C4 witness: the check for double confirmation of an iteration in which
\* both timeframes were evaluated.
C4_Witness ==
    /\ pc = "wbs_decide"
    /\ primary_fresh
    /\ iter_log = <<"premium", "confirm", "primary">>
    /\ primary_signal /\ ~confirm_signal

\* C5: for capital >= 0, premium > 0 and lot size > 0 the quantity is
\* floor(capital / (premium * lot)) * lot: a non-negative multiple of the
\* lot size that the capital pays for while one lot more it does not; it is
\* 0 when premium * lot <= 0; and balance 100000, risk factor 0.9, premium
\* 100, lot size 75 give 900.
C5_Quantity ==
    fn_ret.done =>
        LET capital == TradingCapital(fn_args.balance, fn_args.risk)
            premium == fn_args.premium
            lot == fn_args.lot
            q == fn_ret.value
        IN  /\ (capital >= 0 /\ premium > 0 /\ lot > 0)
                 => /\ q >= 0
                    /\ q % lot = 0
                    /\ 100 * q * premium <= capital
                    /\ capital < 100 * (q + lot) * premium
            /\ premium * lot <= 0 => q = 0
            /\ (fn_args.balance = 100000 /\ fn_args.risk = 90 /\ premium = 100 /\ lot = 75)
                 => q = 900

\* C5 witness: the sizer was applied to the worked example.
C5_Witness ==
    /\ fn_ret.done
    /\ fn_args = [balance |-> 100000, risk |-> 90, premium |-> 100, lot |-> 75]
    /\ fn_ret.value = 900

\* C6: when the quantity recomputed in execute_buy is 0, no BUY order is
\* submitted and no position is opened, whatever the flags; execute_buy
\* returns False and run waits and goes on to the next cycle.
C6_ZeroQuantityBlocksEntry ==
    [][ /\ (pc = "eb_size" /\ pc' \in {"eb_place", "eb_failed"} /\ quantity' <= 0)
              => /\ pc' = "eb_failed"
                 /\ UNCHANGED <<posVars, ledgerVars, buys_accepted, positions_opened>>
        /\ pc' \in {"eb_place", "eb_wait"} => quantity' > 0
        /\ buys_accepted' # buys_accepted => quantity > 0
        /\ StepFrom("eb_failed")
              => /\ pc' = "run_phase7"
                 /\ since_eval' = primary_check_seconds
                 /\ UNCHANGED <<posVars, ledgerVars, buys_accepted, positions_opened>>
        /\ StepFrom("run_phase7") => pc' = "run_loop"
      ]_vars

\* C6 witness: balance 10000, risk factor 0.4 and premium 90 leave quantity
\* 0 after double confirmation, and the entry is given up.
C6_Witness ==
    /\ pc = "eb_failed"
    /\ quantity = 0
    /\ primary_signal /\ confirm_signal
    /\ risk_factor = 40 /\ available_balance = 10000 /\ selected_option.ltp = 90
    /\ buys_accepted = 0
    /\ ~position_open

\* C7: when a stop request (KeyboardInterrupt or stop()) has arrived while
\* a position was open, the exit that run forces before it ends, with the
\* market still open, is submitted with reason "user_stop".
C7_UserStopExit ==
    (pc = "es_entry" /\ sell_ret = "summary" /\ stop_with_open /\ ~is_running
        /\ phase = "open")
        => sell_reason = "user_stop"

\* C8: a stop signal never drops position state: when run comes to its
\* daily summary, every accepted BUY has become a recorded position and
\* every accepted SELL has its TradeRecord.
C8_NoDroppedPosition ==
    pc = "summary" => /\ buys_accepted = positions_opened
                      /\ sells_accepted = Len(daily_trades)

\* C9: with a position open once the market has closed, monitor_for_exit
\* and the end-of-day step of run go straight to a SELL with reason
\* "market_close", which is submitted without an exit evaluation; when it
\* is accepted and execute_sell completes, the position is closed and the
\* appended record carries "market_close"; and run does not end normally
\* with an open position unless that SELL was refused.
C9_MarketCloseExit ==
    [][ /\ (StepFrom("mon_top") /\ is_running /\ position_open /\ phase = "closed")
              => (pc' = "es_entry" /\ sell_reason' = "market_close")
        /\ (StepFrom("eod") /\ position_open)
              => (pc' = "es_entry" /\ sell_reason' = "market_close")
        /\ (StepFrom("es_entry") /\ position_open) => pc' = "es_place"
        /\ (StepFrom("es_wait") /\ sell_reason = "market_close")
              => /\ ~position_open'
                 /\ Len(daily_trades') = Len(daily_trades) + 1
                 /\ Last(daily_trades').exit_reason = "market_close"
        /\ (pc' = "done" /\ outcome' = "normal" /\ position_open')
              => last_sell' = [reason |-> "market_close", accepted |-> FALSE]
      ]_vars

\* C9 witness: the market has closed and the position was closed by an
\* accepted SELL recorded with "market_close".
C9_Witness ==
    /\ phase = "closed"
    /\ pc \in {"run_phase7", "summary"}
    /\ ~position_open
    /\ Len(daily_trades) > 0
    /\ Last(daily_trades).exit_reason = "market_close"
    /\ last_sell = [reason |-> "market_close", accepted |-> TRUE]

\* The seven conditions of the entry rule on the latest bar, read off the
\* indicator values (a comparison with an undefined value does not hold).
SevenHold(df) ==
    LET c == df.current
        p == df.prev
    IN  /\ EQ(c.supertrend_direction, Num(1))
        /\ GT(c.close, c.supertrend)
        /\ GT(c.close, c.ema_low_8)
        /\ GT(c.ema_8, c.ema_9)
        /\ (LT(c.stoch_rsi_k, Num(stoch_rsi_threshold)) \/ GT(c.stoch_rsi_k, p.stoch_rsi_k))
        /\ (LT(c.rsi_14, Num(rsi_max)) /\ GT(c.rsi_14, p.rsi_14))
        /\ (GT(c.macd_hist, Num(0)) \/ GT(c.macd_hist, p.macd_hist))

\* How many of the seven conditions hold.
HoldCount(df) ==
    LET c == BuyConditions(df)
        B(x) == IF x THEN 1 ELSE 0
    IN  B(c.supertrend_bullish) + B(c.close_above_st) + B(c.close_above_ema_low)
        + B(c.ema_bullish) + B(c.stoch_ok) + B(c.rsi_ok) + B(c.macd_ok)

\* C10: check_buy_conditions reports a timeframe eligible if and only if
\* all seven conditions hold on the latest bar; six are not enough.
C10_AllSeven ==
    fn_ret.done =>
        /\ fn_ret.value.signal <=> SevenHold(fn_args)
        /\ HoldCount(fn_args) <= 6 => ~fn_ret.value.signal

\* C10 witness: a history on which only the RSI condition fails is not
\* eligible.
C10_Witness ==
    /\ fn_ret.done
    /\ fn_args.len >= StochKFirstLen
    /\ HoldCount(fn_args) = 6
    /\ ~BuyConditions(fn_args).rsi_ok
    /\ ~fn_ret.value.signal

\* The exit rule read off the indicator values of the last three bars:
\* trigger 1 first, then trigger 2, else no exit.
ExitRule(df) ==
    LET c == df.current
        falling == /\ LT(c.ema_low_8, df.prev.ema_low_8)
                   /\ LT(df.prev.ema_low_8, df.prev2.ema_low_8)
        below == LT(c.close, c.ema_low_8)
        bearish == /\ EQ(c.supertrend_direction, Num(-1))
                   /\ LT(c.ema_8, c.ema_9)
                   /\ below
    IN  IF falling /\ below
        THEN [should_exit |-> TRUE, exit_reason |-> "ema_low_falling"]
        ELSE IF bearish
             THEN [should_exit |-> TRUE, exit_reason |-> "strong_bearish"]
             ELSE [should_exit |-> FALSE, exit_reason |-> "None"]

\* C11 as stated: check_exit_conditions exits with "ema_low_falling"
\* exactly when ema_low_8 fell on each of the last two bars and the close
\* is below it, otherwise with "strong_bearish" exactly when the direction
\* is -1, ema_8 < ema_9 and the close is below ema_low_8, otherwise not.
C11_ExitTriggers_AsStated ==
    fn_ret.done => fn_ret.value = ExitRule(fn_args)

\* C11 amended: on a history of at least min_bars_exit bars the result is
\* that of the exit rule (trigger 1 before trigger 2, one decline not being
\* enough for trigger 1); on a shorter history there is no exit.
C11_ExitTriggers ==
    fn_ret.done =>
        fn_ret.value = IF fn_args.len >= min_bars_exit
                       THEN ExitRule(fn_args)
                       ELSE [should_exit |-> FALSE, exit_reason |-> "None"]

\* C11 witness: both triggers hold on a long enough history and the reason
\* is that of trigger 1.
C11_Witness ==
    /\ fn_ret.done
    /\ fn_args.len >= min_bars_exit
    /\ fn_args.current.supertrend_direction = Num(-1)
    /\ fn_args.current.ema_8 = Num(95)
    /\ ExitRule(fn_args).exit_reason = "ema_low_falling"
    /\ fn_ret.value = [should_exit |-> TRUE, exit_reason |-> "ema_low_falling"]

\* C12: when place_buy_order yields no order id, execute_buy opens no
\* position and leaves the position fields and the ledger as they were; it
\* returns False, and run waits and goes on to its next cycle.  A position
\* is opened only in the step that follows an accepted BUY.
C12_FailedBuyOpensNothing ==
    [][ /\ (pc = "eb_place" /\ pc' \in {"eb_wait", "eb_failed"}
              /\ buys_accepted' = buys_accepted)
              => /\ pc' = "eb_failed"
                 /\ UNCHANGED <<posVars, ledgerVars, positions_opened>>
        /\ (StepFrom("eb_failed") /\ quantity > 0)
              => /\ pc' = "run_phase7"
                 /\ outcome' = "running"
                 /\ UNCHANGED <<posVars, ledgerVars, positions_opened, buys_accepted>>
        /\ (position_open' /\ ~position_open)
              => (pc = "eb_wait" /\ buys_accepted > positions_opened)
      ]_vars

\* C12 witness: a BUY for a positive quantity was refused, and no position
\* is open.
C12_Witness ==
    /\ pc = "eb_failed"
    /\ quantity > 0
    /\ buys_accepted = 0
    /\ positions_opened = 0
    /\ ~position_open
    /\ daily_trades = <<>>

\* C13: position_open becomes true only for a BUY order whose latest
\* status, fetched after the wait, is COMPLETE.
C13_FillConfirmed ==
    (position_open /\ last_fill.side = "BUY") => last_fill.status = "COMPLETE"

\* C14: when get_filled_price yields 0 for an accepted BUY, the position is
\* opened with the selected option's last premium as entry_price; when it
\* yields 0 for an accepted SELL, the position is closed and recorded with
\* the price execute_sell obtained just before the order (the refreshed
\* premium or, failing that, the last one) as exit_price.
C14_FallbackPrice ==
    [][ /\ (pc = "eb_wait" /\ pc' = "mon_top")
              => /\ position_open'
                 /\ position_quantity' = quantity
                 /\ entry_price' = IF last_fill'.status = "COMPLETE"
                                   THEN last_fill'.average_price
                                   ELSE selected_option.ltp
        /\ (pc = "es_entry" /\ pc' = "es_place")
              => /\ current_price' = selected_option'.ltp
                 /\ \/ selected_option' = selected_option
                    \/ selected_option'.ltp \in env.premiums
        /\ StepFrom("es_wait")
              => /\ ~position_open'
                 /\ Len(daily_trades') = Len(daily_trades) + 1
                 /\ Last(daily_trades').entry_price = entry_price
                 /\ Last(daily_trades').exit_price =
                        IF last_fill'.status = "COMPLETE"
                        THEN last_fill'.average_price
                        ELSE current_price
      ]_vars

\* C14 witness: a trade entered at the premium of the selection (90), the
\* BUY's fill price being unavailable, and recorded at the premium
\* refreshed before the SELL (100), the SELL's fill price being unavailable.
C14_Witness ==
    /\ Len(daily_trades) = 1
    /\ daily_trades[1].entry_price = 90
    /\ daily_trades[1].exit_price = 100
    /\ last_fill.side = "SELL"
    /\ last_fill.status = "unavailable"
    /\ ~position_open

\* C15: once a quantity has been computed in the session, a failure of
\* get_account_balance in a trade cycle (Phase 3) or in execute_buy (the
\* refresh before the order) does not end run.
C15_BalanceFailureRecoverable ==
    [][ (\/ pc = "eb_balance"
         \/ pc = "run_size" /\ calculated_quantity > 0) => (pc' # "fatal")
      ]_vars

\* C16: no failure inside the trading loop propagates out of run: an
\* exception leaves run only from the initialization, before the first
\* trade cycle.
C16_LoopFailuresCaught ==
    pc = "fatal" => trade_cycle = 0

\* C17: in an iteration of wait_for_buy_signal whose live-quote fetch
\* failed, the confirmation flag is false at the check for double
\* confirmation.
C17_QuoteFailureNoConfirm ==
    (pc = "wbs_decide" /\ iter_in.quote = "failed") => ~confirm_signal

\* A history that is empty (or could not be fetched) or shorter than the
\* evaluation asks for.
Insufficient(kind) == kind \in {"empty", "short"}

\* C18: an empty, unfetched or too short history makes its evaluation
\* yield "not eligible" (the flag is false for the iteration, so the wait
\* goes on after its delay) or "no exit" (the position stays open and the
\* monitor polls again); no such step ends the session.
C18_InsufficientHistory ==
    [][ /\ (pc = "wbs_confirm" /\ pc' = "wbs_primary" /\ Insufficient(iter_in'.confirm))
              => ~confirm_signal'
        /\ (pc = "wbs_primary" /\ pc' = "wbs_decide" /\ Insufficient(iter_in'.primary))
              => ~primary_signal'
        /\ (StepFrom("wbs_decide")
              /\ (Insufficient(iter_in.confirm) \/ Insufficient(iter_in.primary)))
              => /\ pc' = "wbs_top"
                 /\ since5' >= Min(since5 + confirm_check_seconds, primary_check_seconds)
                 /\ UNCHANGED <<posVars, ledgerVars, buys_accepted>>
        /\ (StepFrom("mon_check") /\ Insufficient(iter_in'.confirm))
              => /\ pc' = "mon_top"
                 /\ position_open'
                 /\ UNCHANGED <<posVars, ledgerVars, sells_accepted>>
        /\ (pc \in {"wbs_confirm", "wbs_primary", "wbs_decide", "mon_check"})
              => (pc' # "fatal")
      ]_vars

\* C18 witness: the monitor has just met a history of fewer than
\* min_bars_exit bars and the position is still open.
C18_Witness ==
    /\ pc = "mon_top"
    /\ iter_in.confirm = "short"
    /\ position_open
    /\ is_running
    /\ outcome = "running"

\* C19: when wait_for_buy_signal finds the market inside the last
\* stop_new_trades_minutes before the close, it returns False whatever the
\* flags are; from there on run submits no BUY, opens no position and
\* enters no further scan, sizing or wait: the loop head breaks out to the
\* end-of-day step.
C19_CutoffAbortsCycle ==
    [][ /\ (StepFrom("wbs_top") /\ phase \in {"cutoff", "closing"})
              => pc' = "run_phase7"
        /\ (phase \in {"cutoff", "closing", "closed"}
              /\ pc \in {"wbs_top", "run_phase7", "run_loop", "eod"})
              => /\ pc' \notin {"run_scan", "run_size", "wbs_enter", "wbs_premium",
                                "eb_balance", "eb_size", "eb_place", "eb_wait"}
                 /\ buys_accepted' = buys_accepted
                 /\ positions_opened' = positions_opened
                 /\ ~position_open => ~position_open'
        /\ (StepFrom("run_loop") /\ phase \in {"cutoff", "closing", "closed"})
              => pc' = "eod"
      ]_vars

\* C19 witness: the wait was left at the cutoff with the primary flag true
\* from an earlier iteration, no order submitted and no position open.
C19_Witness ==
    /\ pc = "run_phase7"
    /\ phase = "cutoff"
    /\ iter_log = <<>>
    /\ ever_eval
    /\ primary_signal
    /\ buys_accepted = 0
    /\ ~position_open
    /\ is_running

\* C20: the ledger is append-only and holds exactly one TradeRecord for
\* each accepted SELL: outside the fill wait of execute_sell, the number of
\* accepted SELL orders equals the number of records.
C20_OneRecordPerSell ==
    pc # "es_wait" => sells_accepted = Len(daily_trades)

\* C21: every quantity returned by calculate_quantity is a non-negative
\* exact multiple of the lot size, for every balance the broker reports
\* (a negative one included), risk factor in [0,1] and premium.
C21_QuantityNonNegative ==
    fn_ret.done =>
        /\ fn_ret.value >= 0
        /\ fn_args.lot > 0 => fn_ret.value % fn_args.lot = 0

\* C25: ema[0] is series[0], every later value is
\* series[i] * a + ema[i-1] * (1 - a) with a = 2 / (period + 1), and every
\* value lies between the smallest and the largest sample seen so far.
C25_Ema ==
    fn_ret.done =>
        LET x == fn_ret.value.close
            e == fn_ret.value.ema
            a == Frac(2, IndWindow + 1)
        IN  /\ Len(e) = Len(x)
            /\ EQ(e[1], x[1])
            /\ \A i \in 2..Len(x) :
                 EQ(e[i], Add(Mul(x[i], a), Mul(e[i - 1], Sub(Num(1), a))))
            /\ \A i \in 1..Len(x) :
                 /\ \E j \in 1..i : GE(e[i], x[j])
                 /\ \E j \in 1..i : LE(e[i], x[j])

\* C25 witness: on a series that rises and falls the average is strictly
\* inside the range of the samples on the last bar.
C25_Witness ==
    /\ fn_ret.done
    /\ \E i, j \in 1..IndLen :
         /\ GT(Last(fn_ret.value.ema), fn_ret.value.close[i])
         /\ LT(Last(fn_ret.value.ema), fn_ret.value.close[j])
    /\ ~EQ(Last(fn_ret.value.ema), Last(fn_ret.value.close))

\* C29: on every warmed-up bar whose window holds no loss the RSI is 100,
\* never an undefined value, flat prices over the window included.
C29_ZeroLossIs100 ==
    fn_ret.done =>
        \A i \in IndWindow..IndLen :
            (\A j \in (i - IndWindow + 1)..i :
                 j > 1 => fn_args.close[j] >= fn_args.close[j - 1])
              => EQ(fn_ret.value.rsi[i], Num(100))

\* C24: wherever stochRsiK or stochRsiD is defined it is a number in
\* [0, 100].
C24_StochRange ==
    fn_ret.done =>
        \A i \in 1..IndLen :
            LET k == fn_ret.value.stoch.k[i]
                d == fn_ret.value.stoch.d[i]
            IN  /\ ~k.nan => IsNum(k) /\ GE(k, Num(0)) /\ LE(k, Num(100))
                /\ ~d.nan => IsNum(d) /\ GE(d, Num(0)) /\ LE(d, Num(100))

\* C24 witness: on the last bar %K and %D are both defined, %K at the top
\* of the range and %D strictly inside it.
C24_Witness ==
    /\ fn_ret.done
    /\ EQ(Last(fn_ret.value.stoch.k), Num(100))
    /\ GT(Last(fn_ret.value.stoch.d), Num(0))
    /\ LT(Last(fn_ret.value.stoch.d), Num(100))

\* C30: on a bar whose rolling RSI range is zero stochastic_rsi yields an
\* undefined value for the bar (and for the %K that averages it), not a
\* number and not an error; and a history whose current stochRsiK is
\* undefined is not entry-eligible.
C30_ZeroRangeUndefined ==
    fn_ret.done =>
        LET s == fn_ret.value.stoch
        IN  /\ \A i \in 1..IndLen :
                 EQ(s.highest[i], s.lowest[i]) => s.raw[i].nan /\ s.k[i].nan
            /\ Last(s.k).nan => ~fn_ret.value.eligible

\* C30 witness: the RSI is defined and constant over the last window, so
\* the range is zero on the last bar, whose %K is undefined.
C30_Witness ==
    /\ fn_ret.done
    /\ IsNum(Last(fn_ret.value.rsi))
    /\ EQ(Last(fn_ret.value.stoch.highest), Last(fn_ret.value.stoch.lowest))
    /\ Last(fn_ret.value.stoch.k).nan
    /\ ~fn_ret.value.eligible

\* C23: for every index i >= 1 the final bands are the fold
\* finalUpper[i] = basicUpper[i] if basicUpper[i] < finalUpper[i-1] or
\* close[i-1] > finalUpper[i-1], else finalUpper[i-1] (symmetrically for
\* finalLower); the direction is seeded at index 1 as +1 iff close >
\* finalUpper, is +1 or -1 from then on, turns from -1 to +1 only on a bar
\* with close > finalUpper and from +1 to -1 only on a bar with close <
\* finalLower; the value is finalLower when the direction is +1 and
\* finalUpper otherwise.  (Index i of the source is i + 1 here.)
C23_SupertrendFold ==
    fn_ret.done =>
        LET st == fn_ret.value.st
            close == fn_ret.value.close
            fu == st.final_upper
            fl == st.final_lower
            dir == st.direction
        IN  /\ \A i \in 2..SuperLen :
                 /\ EQ(fu[i], IF LT(st.basic_upper[i], fu[i - 1]) \/ GT(close[i - 1], fu[i - 1])
                              THEN st.basic_upper[i] ELSE fu[i - 1])
                 /\ EQ(fl[i], IF GT(st.basic_lower[i], fl[i - 1]) \/ LT(close[i - 1], fl[i - 1])
                              THEN st.basic_lower[i] ELSE fl[i - 1])
                 /\ EQ(dir[i], Num(1)) \/ EQ(dir[i], Num(-1))
                 /\ EQ(st.supertrend[i], IF EQ(dir[i], Num(1)) THEN fl[i] ELSE fu[i])
            /\ EQ(dir[2], Num(1)) <=> GT(close[2], fu[2])
            /\ \A i \in 3..SuperLen :
                 /\ (EQ(dir[i - 1], Num(-1)) /\ EQ(dir[i], Num(1))) => GT(close[i], fu[i])
                 /\ (EQ(dir[i - 1], Num(1)) /\ EQ(dir[i], Num(-1))) => LT(close[i], fl[i])

\* C23 witness: a series on which the direction turns up and later turns
\* down again, and on which the upper band was once held at its previous
\* value.
C23_Witness ==
    /\ fn_ret.done
    /\ LET dir == fn_ret.value.st.direction
           st == fn_ret.value.st
       IN  /\ \E i, j \in 3..SuperLen :
                /\ i < j
                /\ EQ(dir[i - 1], Num(-1)) /\ EQ(dir[i], Num(1))
                /\ EQ(dir[j - 1], Num(1)) /\ EQ(dir[j], Num(-1))
           /\ \E i \in 2..SuperLen : ~EQ(st.final_upper[i], st.basic_upper[i])

\* C22 as stated: 40 bars of close rising by a constant step on both
\* timeframes make both evaluators entry-eligible by bar 30, double
\* confirmation fires, and the quantity bought is 900.
C22_ScenarioA_AsStated ==
    (fn_ret.done /\ fn_args.bars >= 30) =>
        /\ fn_ret.value.primary
        /\ fn_ret.value.confirm
        /\ fn_ret.value.entry
        /\ fn_ret.value.quantity = 900

\* C22: on closes rising by a constant step the RSI is 100 on every
\* warmed-up bar and stochRsiK is undefined on every bar, so neither
\* evaluator is entry-eligible on any bar up to bar 40 and double
\* confirmation does not fire; the sizer's quantity for balance 100000,
\* risk factor 0.9, premium 100 and lot size 75 is 900.
C22_ScenarioA ==
    fn_ret.done =>
        /\ \A i \in 1..fn_args.bars :
             /\ i >= rsi_period => /\ EQ(fn_ret.value.rsi_5min[i], Num(100))
                                   /\ EQ(fn_ret.value.rsi_2min[i], Num(100))
             /\ fn_ret.value.k_5min[i].nan
             /\ fn_ret.value.k_2min[i].nan
        /\ ~fn_ret.value.primary
        /\ ~fn_ret.value.confirm
        /\ ~fn_ret.value.entry
        /\ fn_ret.value.quantity = 900

\* C22 witness: the full 40 bars were fed, the RSI stands at 100 and no
\* entry fired.
C22_Witness ==
    /\ fn_ret.done
    /\ fn_args.bars = ScenarioBars
    /\ EQ(Last(fn_ret.value.rsi_5min), Num(100))
    /\ ~fn_ret.value.entry
    /\ fn_ret.value.quantity = 900

\* C26: check_buy_conditions of nifty_call_option_strategy returns a buy
\* signal only if all its documented conditions hold: whenever rsi_good is
\* false the signal is false.
C26_RsiRequired ==
    fn_ret.done =>
        (~fn_ret.value.call_option.conditions.rsi_good => ~fn_ret.value.call_option.signal)

\* C27: NiftyBuyStrategy.check_buy_conditions signals BUY only when all
\* seven indicator conditions are true on the timeframe.
C27_AllConditionsRequired ==
    fn_ret.done =>
        (fn_ret.value.nifty.signal => fn_ret.value.nifty.all_conditions_met)

\* C28: in the run loop of nifty_call_option_strategy a position that is
\* open when the market closes is exited: the loop neither ends the
\* session nor goes idle for the closed market with the position open.
C28_MarketCloseExit ==
    pc \in {"co_done", "co_closed_wait"} => ~position_open

C32_OrderSizedAfterConfirmation ==
    pc \in {"eb_place", "eb_wait"} =>
        /\ trading_capital = TradingCapital(available_balance, risk_factor)
        /\ quantity = calculate_quantity(trading_capital, selected_option.ltp, lot_size)
        /\ quantity > 0
        /\ 100 * quantity * selected_option.ltp <= trading_capital

\* A BUY of one lot has been accepted on the small balance.
C32_Witness ==
    /\ pc = "eb_wait"
    /\ buys_accepted > 0
    /\ available_balance = 10000
    /\ quantity = lot_size

\* C33: a user stop (KeyboardInterrupt) received while a position is open
\* forces an exit of that position before the loop terminates: the loop of
\* nifty_call_option_strategy does not end on an interrupt with the
\* position still open.
C33_UserStopExits ==
    pc = "co_done" /\ outcome = "interrupted" => ~position_open

\* C34: in NiftyBuyStrategy.run the reason attached to a SELL is
\* EMA_LOW_FALLING whenever the EMA on low fell on two consecutive bars
\* with the price below it, and STRONG_BEARISH only when that does not hold
\* (fn_args is the history the SELL was decided on).
C34_ReasonNamesTrigger ==
    sells_accepted > 0 =>
        /\ check_sell_condition_2min(fn_args).is_sell =>
               last_sell.reason = "EMA_LOW_FALLING"
        /\ last_sell.reason = "STRONG_BEARISH" =>
               /\ ~check_sell_condition_2min(fn_args).is_sell
               /\ check_sell_condition_2min(fn_args).strong_sell

\* C35: a rejected SELL (place_sell_order yields no order id) leaves the
\* position and the ledger as they were: no step of execute_sell up to and
\* including the rejection changes position_open, entry_price, entry_time,
\* position_quantity, position_symbol, daily_trades or total_pnl, and on
\* the rejection execute_sell returns without waiting for a fill.
C35_RejectedSellFrame ==
    [][ (/\ \/ pc = "es_entry"
            \/ pc = "es_place" /\ ~last_sell'.accepted
         /\ pc' # pc)
        => (/\ UNCHANGED <<posVars, ledgerVars>>
            /\ pc' # "es_wait") ]_vars

\* C35 as stated: those steps leave every field of the instance unchanged.
C35_WholeStateUnchanged ==
    [][ (/\ \/ pc = "es_entry"
            \/ pc = "es_place" /\ ~last_sell'.accepted
         /\ pc' # pc)
        => UNCHANGED traderVars ]_vars

\* execute_sell has just returned from a rejected SELL, with a refreshed
\* premium that is not the entry price.
C35_Witness ==
    /\ pc \in {"run_phase7", "summary"}
    /\ last_sell.reason # "None"
    /\ ~last_sell.accepted
    /\ position_open
    /\ selected_option.ltp # entry_price

\* C36: while a position is open, the session is running and the market is
\* open, the position is being monitored: run is not scanning, sizing or
\* awaiting a buy signal for a new cycle with the position left unattended,
\* also after a SELL attempt has failed.
C36_PositionMonitored ==
    position_open /\ is_running /\ is_market_open /\ ~in_handler
        => pc \notin {"run_scan", "run_size", "wbs_enter", "wbs_top"}

\* C37: whenever a position is open, selected_option is the instrument of
\* the position (selected_option['tradingsymbol'] = position_symbol), after
\* any sequence of cycles, failed SELLs included.
C37_SelectedIsHeld ==
    position_open => selected_option.tradingsymbol = position_symbol

\* C38: every call of wait_for_buy_signal evaluates the primary timeframe in
\* its first iteration, so that at the check for double confirmation the
\* primary flag has been computed in this call (in this iteration, or less
\* than primary_check_seconds ago by the call's own timer), never in a
\* previous trade cycle.
C38_PrimaryFreshPerCall ==
    pc = "wbs_decide" =>
        /\ first_iter => primary_fresh
        /\ primary_fresh \/ since5 < primary_check_seconds

\* The first iteration of the call of a second cycle, after a cycle that
\* ended in an entry (primary_signal was left True on the instance), has
\* evaluated the primary timeframe anew and found it False.
C38_Witness ==
    /\ pc = "wbs_decide"
    /\ first_iter
    /\ trade_cycle > 1
    /\ positions_opened > 0
    /\ primary_fresh
    /\ ~primary_signal
    /\ since_eval = 0

\* C39 (termination alone): with time advancing and every call returning,
\* run ends.
C39_Terminates == <>(pc = "done")

\* C39 (the loops after the close): once the market has closed, no loop of
\* run goes round again: the loop of run begins no trade cycle, and the
\* loops of wait_for_buy_signal and monitor_for_exit begin no iteration.
C39_NoLoopAfterClose ==
    [][ phase = "closed" =>
          /\ pc = "run_loop" => pc' # "run_scan"
          /\ pc = "wbs_top" =>
                pc' \notin {"wbs_premium", "wbs_confirm", "wbs_primary", "wbs_decide"}
          /\ pc = "mon_top" => pc' # "mon_check" ]_vars

\* C39: when run has ended after the close of the market and the broker has
\* accepted a SELL for every position that was opened, position_open and
\* is_running are False.
C39_EndsFlat ==
    /\ pc = "done"
    /\ phase = "closed"
    /\ positions_opened > 0
    /\ sells_accepted >= positions_opened
    => ~position_open /\ ~is_running

====
